---- MODULE Spec2Model ----
(***************************************************************************)
(* Model of the Bedrock AgentCore online-evaluation construct:             *)
(*   lib/evaluation/online-evaluation-config-base.ts (validation helpers)  *)
(*   lib/evaluation/online-evaluation.ts             (OnlineEvaluation)    *)
(*   lib/evaluation/data-source.ts, evaluator.ts, types.ts                 *)
(*                                                                         *)
(* JavaScript values are tagged records.  A string is a sequence of text  *)
(* fragments: one character each where its length or its characters are   *)
(* tested (configName, description), whole pieces elsewhere (ARNs, ids).   *)
(* Numbers are fixed-point, in thousandths (field milli), plus NaN; 0.01   *)
(* is Num(10) and 1 is Num(1000).                                          *)
(***************************************************************************)
EXTENDS Integers, Sequences, FiniteSets, TLC

VARIABLES
    phase,      \* "ready", then "called" | "returned" | "constructed" | "threw"
    call,       \* the function called directly, and its argument
    errors,     \* the error list a validation function returned
    result,     \* the value a factory, render or format call returned
    props,      \* the props the constructor was given
    thrown,     \* what the constructor threw
    resource,   \* the OnlineEvaluation the constructor returned
    tree,       \* ids of the constructs defined in the scope, the new one first
    attached    \* the statements added to roles by addToPolicy, in call order

vars == <<phase, call, errors, result, props, thrown, resource, tree, attached>>

----------------------------------------------------------------------------
(* Bounds of the explored inputs *)

MaxNameLen == 50
MaxDescLen == 202
MaxEvaluators == 12
MaxFilters == 7
MaxLogGroups == 7
MaxMinutes == 1442
SamplingMargin == 12
MaxListLen == 3

----------------------------------------------------------------------------
(* JavaScript values *)

Undefined == [t |-> "undefined"]
Null == [t |-> "null"]
Str(s) == [t |-> "string", s |-> s]
Num(m) == [t |-> "number", nan |-> FALSE, milli |-> m]
NaN == [t |-> "number", nan |-> TRUE, milli |-> 0]
Whole(n) == Num(n * 1000)
Arr(a) == [t |-> "array", a |-> a]
Bool(b) == [t |-> "boolean", b |-> b]

\* `x == null` of JavaScript: true of null and of undefined
IsNullish(v) == v.t \in {"undefined", "null"}

\* a < b and a > b on numbers: every comparison with NaN is false
NumLt(a, b) == ~a.nan /\ ~b.nan /\ a.milli < b.milli
NumGt(a, b) == ~a.nan /\ ~b.nan /\ a.milli > b.milli

\* s.repeat(n) for a one-character s
Repeat(c, n) == [i \in 1..n |-> c]

----------------------------------------------------------------------------
(* Deferred values (aws-cdk-lib core Token) *)

\* the marker a string token is encoded as
TokenMarker == <<"$", "{", "T", "o", "k", "e", "n", "[", "T", "O", "K", "E", "N", ".", "1", "]", "}">>

\* number tokens are encoded as doubles at or below -TokenMagnitude
TokenMagnitude == 1000000000

NumberToken(id) == Num(0 - TokenMagnitude - id)

ContainsMarker(s) ==
    \E i \in 1..(Len(s) - Len(TokenMarker) + 1) :
        \A j \in 1..Len(TokenMarker) : s[i + j - 1] = TokenMarker[j]

IsUnresolved(v) ==
    CASE v.t = "string" -> ContainsMarker(v.s)
      [] v.t = "number" -> ~v.nan /\ v.milli <= 0 - TokenMagnitude
      [] OTHER -> FALSE

----------------------------------------------------------------------------
(* Validation constants *)

CONFIG_NAME_MIN_LENGTH == 1
CONFIG_NAME_MAX_LENGTH == 48
DESCRIPTION_MAX_LENGTH == 200
EVALUATORS_MIN_COUNT == 1
EVALUATORS_MAX_COUNT == 10
SAMPLING_PERCENTAGE_MIN == Num(10)
SAMPLING_PERCENTAGE_MAX == Whole(100)
FILTERS_MAX_COUNT == 5
SESSION_TIMEOUT_MIN == Whole(1)
SESSION_TIMEOUT_MAX == Whole(1440)
LOG_GROUPS_MIN_COUNT == 1
LOG_GROUPS_MAX_COUNT == 5

\* a validation message: the template's text, the limit and the value it prints
Msg(text, limit, got, name) == [text |-> text, limit |-> limit, got |-> got, name |-> name]

----------------------------------------------------------------------------
(* The regular expression /^[a-zA-Z][a-zA-Z0-9_]{0,47}$/ *)

LowerCase == {"a", "b", "c", "d", "e", "f", "g", "h", "i", "j", "k", "l", "m",
              "n", "o", "p", "q", "r", "s", "t", "u", "v", "w", "x", "y", "z"}
UpperCase == {"A", "B", "C", "D", "E", "F", "G", "H", "I", "J", "K", "L", "M",
              "N", "O", "P", "Q", "R", "S", "T", "U", "V", "W", "X", "Y", "Z"}
DigitChars == {"0", "1", "2", "3", "4", "5", "6", "7", "8", "9"}

\* [a-zA-Z]
ClassAlpha(c) == c \in LowerCase \cup UpperCase
\* [a-zA-Z0-9_]
ClassWord(c) == c \in LowerCase \cup UpperCase \cup DigitChars \cup {"_"}

\* number of characters a greedy [a-zA-Z0-9_]{0,max} consumes from position from
RECURSIVE GreedyWord(_, _, _)
GreedyWord(s, from, max) ==
    IF max = 0 \/ from > Len(s) \/ ~ClassWord(s[from])
    THEN 0
    ELSE 1 + GreedyWord(s, from + 1, max - 1)

\* the first character taken from [a-zA-Z0-9_]
ValidNamePatternTestAnyFirst(s) ==
    /\ Len(s) >= 1
    /\ ClassWord(s[1])
    /\ 1 + GreedyWord(s, 2, 47) = Len(s)

\* validNamePattern.test(name): the quantifier is followed by $, so the match
\* succeeds exactly when the longest run allowed ends at the end of the input
ValidNamePatternTest(s) ==
    /\ Len(s) >= 1
    /\ ClassAlpha(s[1])
    /\ 1 + GreedyWord(s, 2, 47) = Len(s)

----------------------------------------------------------------------------
(* Validation functions *)

validateConfigName(name) ==
    IF IsNullish(name) THEN <<>>
    ELSE IF IsUnresolved(name) THEN <<>>
    ELSE
        (IF Len(name.s) < CONFIG_NAME_MIN_LENGTH
         THEN <<Msg("Configuration name must be at least LIMIT character(s), got GOT",
                    CONFIG_NAME_MIN_LENGTH, Len(name.s), <<>>)>>
         ELSE <<>>)
        \o
        (IF Len(name.s) > CONFIG_NAME_MAX_LENGTH
         THEN <<Msg("Configuration name must be at most LIMIT characters, got GOT",
                    CONFIG_NAME_MAX_LENGTH, Len(name.s), <<>>)>>
         ELSE <<>>)
        \o
        (IF ~ValidNamePatternTest(name.s)
         THEN <<Msg("Configuration name NAME does not match required pattern. Must start with a letter and contain only alphanumeric characters and underscores.",
                    0, 0, name.s)>>
         ELSE <<>>)

\* `>=` for `>`
validateDescriptionOffByOne(description) ==
    IF IsNullish(description) THEN <<>>
    ELSE IF IsUnresolved(description) THEN <<>>
    ELSE
        IF Len(description.s) >= DESCRIPTION_MAX_LENGTH
        THEN <<Msg("Description must be at most LIMIT characters, got GOT",
                   DESCRIPTION_MAX_LENGTH, Len(description.s), <<>>)>>
        ELSE <<>>

validateDescription(description) ==
    IF IsNullish(description) THEN <<>>
    ELSE IF IsUnresolved(description) THEN <<>>
    ELSE
        IF Len(description.s) > DESCRIPTION_MAX_LENGTH
        THEN <<Msg("Description must be at most LIMIT characters, got GOT",
                   DESCRIPTION_MAX_LENGTH, Len(description.s), <<>>)>>
        ELSE <<>>

\* `>=` for `>` on the maximum
validateEvaluatorsOffByOne(evaluators) ==
    IF IsNullish(evaluators)
    THEN <<Msg("Evaluators array is required", 0, 0, <<>>)>>
    ELSE
        (IF Len(evaluators.a) < EVALUATORS_MIN_COUNT
         THEN <<Msg("At least LIMIT evaluator is required, got GOT",
                    EVALUATORS_MIN_COUNT, Len(evaluators.a), <<>>)>>
         ELSE <<>>)
        \o
        (IF Len(evaluators.a) >= EVALUATORS_MAX_COUNT
         THEN <<Msg("At most LIMIT evaluators are allowed, got GOT",
                    EVALUATORS_MAX_COUNT, Len(evaluators.a), <<>>)>>
         ELSE <<>>)

\* an absent array treated like an absent optional field
validateEvaluatorsAbsentNoop(evaluators) ==
    IF IsNullish(evaluators)
    THEN <<>>
    ELSE
        (IF Len(evaluators.a) < EVALUATORS_MIN_COUNT
         THEN <<Msg("At least LIMIT evaluator is required, got GOT",
                    EVALUATORS_MIN_COUNT, Len(evaluators.a), <<>>)>>
         ELSE <<>>)
        \o
        (IF Len(evaluators.a) > EVALUATORS_MAX_COUNT
         THEN <<Msg("At most LIMIT evaluators are allowed, got GOT",
                    EVALUATORS_MAX_COUNT, Len(evaluators.a), <<>>)>>
         ELSE <<>>)

validateEvaluators(evaluators) ==
    IF IsNullish(evaluators)
    THEN <<Msg("Evaluators array is required", 0, 0, <<>>)>>
    ELSE
        (IF Len(evaluators.a) < EVALUATORS_MIN_COUNT
         THEN <<Msg("At least LIMIT evaluator is required, got GOT",
                    EVALUATORS_MIN_COUNT, Len(evaluators.a), <<>>)>>
         ELSE <<>>)
        \o
        (IF Len(evaluators.a) > EVALUATORS_MAX_COUNT
         THEN <<Msg("At most LIMIT evaluators are allowed, got GOT",
                    EVALUATORS_MAX_COUNT, Len(evaluators.a), <<>>)>>
         ELSE <<>>)

\* the Token.isUnresolved test left out
validateSamplingPercentageNoTokenTest(percentage) ==
    IF IsNullish(percentage) THEN <<>>
    ELSE
        (IF NumLt(percentage, SAMPLING_PERCENTAGE_MIN)
         THEN <<Msg("Sampling percentage must be at least LIMIT, got GOT",
                    SAMPLING_PERCENTAGE_MIN.milli, percentage.milli, <<>>)>>
         ELSE <<>>)
        \o
        (IF NumGt(percentage, SAMPLING_PERCENTAGE_MAX)
         THEN <<Msg("Sampling percentage must be at most LIMIT, got GOT",
                    SAMPLING_PERCENTAGE_MAX.milli, percentage.milli, <<>>)>>
         ELSE <<>>)

validateSamplingPercentage(percentage) ==
    IF IsNullish(percentage) THEN <<>>
    ELSE IF IsUnresolved(percentage) THEN <<>>
    ELSE
        (IF NumLt(percentage, SAMPLING_PERCENTAGE_MIN)
         THEN <<Msg("Sampling percentage must be at least LIMIT, got GOT",
                    SAMPLING_PERCENTAGE_MIN.milli, percentage.milli, <<>>)>>
         ELSE <<>>)
        \o
        (IF NumGt(percentage, SAMPLING_PERCENTAGE_MAX)
         THEN <<Msg("Sampling percentage must be at most LIMIT, got GOT",
                    SAMPLING_PERCENTAGE_MAX.milli, percentage.milli, <<>>)>>
         ELSE <<>>)

\* `>=` for `>`
validateFiltersOffByOne(filters) ==
    IF IsNullish(filters) THEN <<>>
    ELSE
        IF Len(filters.a) >= FILTERS_MAX_COUNT
        THEN <<Msg("At most LIMIT filters are allowed, got GOT",
                   FILTERS_MAX_COUNT, Len(filters.a), <<>>)>>
        ELSE <<>>

validateFilters(filters) ==
    IF IsNullish(filters) THEN <<>>
    ELSE
        IF Len(filters.a) > FILTERS_MAX_COUNT
        THEN <<Msg("At most LIMIT filters are allowed, got GOT",
                   FILTERS_MAX_COUNT, Len(filters.a), <<>>)>>
        ELSE <<>>

validateSessionTimeout(minutes) ==
    IF IsNullish(minutes) THEN <<>>
    ELSE IF IsUnresolved(minutes) THEN <<>>
    ELSE
        (IF NumLt(minutes, SESSION_TIMEOUT_MIN)
         THEN <<Msg("Session timeout must be at least LIMIT minute(s), got GOT",
                    SESSION_TIMEOUT_MIN.milli, minutes.milli, <<>>)>>
         ELSE <<>>)
        \o
        (IF NumGt(minutes, SESSION_TIMEOUT_MAX)
         THEN <<Msg("Session timeout must be at most LIMIT minutes, got GOT",
                    SESSION_TIMEOUT_MAX.milli, minutes.milli, <<>>)>>
         ELSE <<>>)

validateLogGroupNames(names) ==
    IF IsNullish(names)
    THEN <<Msg("Log group names array is required", 0, 0, <<>>)>>
    ELSE
        (IF Len(names.a) < LOG_GROUPS_MIN_COUNT
         THEN <<Msg("At least LIMIT log group name is required, got GOT",
                    LOG_GROUPS_MIN_COUNT, Len(names.a), <<>>)>>
         ELSE <<>>)
        \o
        (IF Len(names.a) > LOG_GROUPS_MAX_COUNT
         THEN <<Msg("At most LIMIT log group names are allowed, got GOT",
                    LOG_GROUPS_MAX_COUNT, Len(names.a), <<>>)>>
         ELSE <<>>)

----------------------------------------------------------------------------
(* Helper functions *)

\* errors.join('\n'): the messages in order, a newline between neighbours
Newline == Msg("\n", 0, 0, <<>>)

RECURSIVE JoinErrors(_)
JoinErrors(errs) ==
    IF Len(errs) = 0 THEN <<>>
    ELSE IF Len(errs) = 1 THEN <<errs[1]>>
    ELSE <<errs[1], Newline>> \o JoinErrors(Tail(errs))

NoThrow == [threw |-> FALSE, kind |-> "none", message |-> <<>>]

\* throwIfInvalid(validationFn, param, scope), given validationFn(param, scope)
throwIfInvalid(errs, scoped) ==
    IF Len(errs) > 0
    THEN [threw |-> TRUE,
          kind |-> IF scoped THEN "ValidationError" ELSE "UnscopedValidationError",
          message |-> JoinErrors(errs)]
    ELSE NoThrow

----------------------------------------------------------------------------
(* EvaluatorReference *)

\* enum BuiltinEvaluator: member name to its string value
BuiltinEvaluator ==
    [CORRECTNESS |-> "Builtin.Correctness",
     FAITHFULNESS |-> "Builtin.Faithfulness",
     HELPFULNESS |-> "Builtin.Helpfulness",
     RESPONSE_RELEVANCE |-> "Builtin.ResponseRelevance",
     CONCISENESS |-> "Builtin.Conciseness",
     COHERENCE |-> "Builtin.Coherence",
     INSTRUCTION_FOLLOWING |-> "Builtin.InstructionFollowing",
     REFUSAL |-> "Builtin.Refusal",
     GOAL_SUCCESS_RATE |-> "Builtin.GoalSuccessRate",
     TOOL_SELECTION_ACCURACY |-> "Builtin.ToolSelectionAccuracy",
     TOOL_PARAMETER_ACCURACY |-> "Builtin.ToolParameterAccuracy",
     HARMFULNESS |-> "Builtin.Harmfulness",
     STEREOTYPING |-> "Builtin.Stereotyping"]

\* new EvaluatorReference(evaluatorId)
EvaluatorReference_new(evaluatorId) == [evaluatorId |-> evaluatorId]

EvaluatorReference_builtin(evaluator) == EvaluatorReference_new(evaluator)
EvaluatorReference_custom(evaluatorId) == EvaluatorReference_new(evaluatorId)

\* a second key beside evaluatorId
EvaluatorReference_renderTagged(e) == [evaluatorId |-> e.evaluatorId, type |-> "evaluator"]

\* _render()
EvaluatorReference_render(e) == [evaluatorId |-> e.evaluatorId]

----------------------------------------------------------------------------
(* DataSourceConfig *)

DataSourceConfig_new(type, cloudWatchLogs, agentEndpoint) ==
    [type |-> type, cloudWatchLogsConfig |-> cloudWatchLogs, agentEndpointConfig |-> agentEndpoint]

\* the log group names stored last first
fromCloudWatchLogsReversed(config) ==
    LET names == config.logGroupNames.a
    IN  DataSourceConfig_new("CLOUDWATCH_LOGS",
            [config EXCEPT !.logGroupNames =
                Arr([i \in 1..Len(names) |-> names[Len(names) + 1 - i]])],
            Undefined)

fromCloudWatchLogs(config) == DataSourceConfig_new("CLOUDWATCH_LOGS", config, Undefined)

\* the agent-endpoint config filed under the CloudWatch Logs type
fromAgentEndpointMistyped(config) == DataSourceConfig_new("CLOUDWATCH_LOGS", Undefined, config)

fromAgentEndpoint(config) == DataSourceConfig_new("AGENT_ENDPOINT", Undefined, config)

\* an endpoint name given as a string is ignored in the service name
fromAgentRuntimeEndpointStringDropped(runtime, endpoint) ==
    LET endpointName ==
            IF endpoint.t = "undefined" THEN <<"DEFAULT">>
            ELSE IF endpoint.t = "string" THEN endpoint.s
            ELSE endpoint.endpointName
        serviceEndpoint == IF endpoint.t = "string" THEN <<"DEFAULT">> ELSE endpointName
        logGroupName == <<"/aws/bedrock-agentcore/runtimes/">> \o runtime.agentRuntimeId
                            \o <<"-">> \o endpointName
        serviceName == runtime.agentRuntimeName \o <<".">> \o serviceEndpoint
    IN  DataSourceConfig_new("CLOUDWATCH_LOGS",
            [t |-> "object", logGroupNames |-> Arr(<<logGroupName>>),
             serviceNames |-> Arr(<<serviceName>>)],
            Undefined)

\* endpoint is Undefined, a string, or an endpoint object with an endpointName
fromAgentRuntimeEndpoint(runtime, endpoint) ==
    LET endpointName ==
            IF endpoint.t = "undefined" THEN <<"DEFAULT">>
            ELSE IF endpoint.t = "string" THEN endpoint.s
            ELSE endpoint.endpointName
        logGroupName == <<"/aws/bedrock-agentcore/runtimes/">> \o runtime.agentRuntimeId
                            \o <<"-">> \o endpointName
        serviceName == runtime.agentRuntimeName \o <<".">> \o endpointName
    IN  DataSourceConfig_new("CLOUDWATCH_LOGS",
            [t |-> "object", logGroupNames |-> Arr(<<logGroupName>>),
             serviceNames |-> Arr(<<serviceName>>)],
            Undefined)

\* `endpointName || 'DEFAULT'`: an empty name is replaced as an absent one is
DataSourceConfig_renderFalsyDefault(ds) ==
    IF ds.type = "CLOUDWATCH_LOGS" /\ ~IsNullish(ds.cloudWatchLogsConfig)
    THEN [threw |-> FALSE,
          value |-> [cloudWatchLogs |->
                        [logGroupNames |-> ds.cloudWatchLogsConfig.logGroupNames,
                         serviceNames |-> ds.cloudWatchLogsConfig.serviceNames]]]
    ELSE IF ds.type = "AGENT_ENDPOINT" /\ ~IsNullish(ds.agentEndpointConfig)
    THEN [threw |-> FALSE,
          value |-> [agentEndpoint |->
                        [agentRuntimeId |-> ds.agentEndpointConfig.agentRuntimeId,
                         endpointName |->
                            IF IsNullish(ds.agentEndpointConfig.endpointName)
                                \/ ds.agentEndpointConfig.endpointName.s = <<>>
                            THEN Str(<<"DEFAULT">>)
                            ELSE ds.agentEndpointConfig.endpointName]]]
    ELSE [threw |-> TRUE, value |-> Msg("Unknown data source type: TYPE", 0, 0, <<ds.type>>)]

\* no final throw: a config without its sub-config renders an empty payload
DataSourceConfig_renderNoThrow(ds) ==
    IF ds.type = "CLOUDWATCH_LOGS" /\ ~IsNullish(ds.cloudWatchLogsConfig)
    THEN [threw |-> FALSE,
          value |-> [cloudWatchLogs |->
                        [logGroupNames |-> ds.cloudWatchLogsConfig.logGroupNames,
                         serviceNames |-> ds.cloudWatchLogsConfig.serviceNames]]]
    ELSE IF ds.type = "AGENT_ENDPOINT" /\ ~IsNullish(ds.agentEndpointConfig)
    THEN [threw |-> FALSE,
          value |-> [agentEndpoint |->
                        [agentRuntimeId |-> ds.agentEndpointConfig.agentRuntimeId,
                         endpointName |->
                            IF IsNullish(ds.agentEndpointConfig.endpointName)
                            THEN Str(<<"DEFAULT">>)
                            ELSE ds.agentEndpointConfig.endpointName]]]
    ELSE [threw |-> FALSE, value |-> <<>>]

\* _render(): the wire object, or the error it throws
DataSourceConfig_render(ds) ==
    IF ds.type = "CLOUDWATCH_LOGS" /\ ~IsNullish(ds.cloudWatchLogsConfig)
    THEN [threw |-> FALSE,
          value |-> [cloudWatchLogs |->
                        [logGroupNames |-> ds.cloudWatchLogsConfig.logGroupNames,
                         serviceNames |-> ds.cloudWatchLogsConfig.serviceNames]]]
    ELSE IF ds.type = "AGENT_ENDPOINT" /\ ~IsNullish(ds.agentEndpointConfig)
    THEN [threw |-> FALSE,
          value |-> [agentEndpoint |->
                        [agentRuntimeId |-> ds.agentEndpointConfig.agentRuntimeId,
                         endpointName |->
                            IF IsNullish(ds.agentEndpointConfig.endpointName)
                            THEN Str(<<"DEFAULT">>)
                            ELSE ds.agentEndpointConfig.endpointName]]]
    ELSE [threw |-> TRUE, value |-> Msg("Unknown data source type: TYPE", 0, 0, <<ds.type>>)]

getLogGroupNames(ds) ==
    IF IsNullish(ds.cloudWatchLogsConfig) THEN Undefined
    ELSE ds.cloudWatchLogsConfig.logGroupNames

----------------------------------------------------------------------------
(* EvaluationPerms *)

ADMIN_PERMS ==
    <<"bedrock-agentcore:CreateOnlineEvaluationConfig",
      "bedrock-agentcore:GetOnlineEvaluationConfig",
      "bedrock-agentcore:UpdateOnlineEvaluationConfig",
      "bedrock-agentcore:DeleteOnlineEvaluationConfig",
      "bedrock-agentcore:ListOnlineEvaluationConfigs">>

READ_PERMS ==
    <<"bedrock-agentcore:GetOnlineEvaluationConfig",
      "bedrock-agentcore:ListOnlineEvaluationConfigs">>

CLOUDWATCH_LOGS_READ_PERMS ==
    <<"logs:DescribeLogGroups", "logs:GetQueryResults", "logs:StartQuery">>

BEDROCK_MODEL_PERMS == <<"bedrock:InvokeModel", "bedrock:InvokeModelWithResponseStream">>

CLOUDWATCH_LOGS_WRITE_PERMS ==
    <<"logs:CreateLogGroup", "logs:CreateLogStream", "logs:PutLogEvents">>

CLOUDWATCH_INDEX_POLICY_PERMS == <<"logs:DescribeIndexPolicies", "logs:PutIndexPolicy">>

----------------------------------------------------------------------------
(* OnlineEvaluation: execution role *)

PolicyStatement(sid, actions, resources) ==
    [sid |-> sid, actions |-> actions, resources |-> resources]

\* Arn.format({service, resource, resourceName}, stack), with the stack's
\* partition, region and account left symbolic
ArnFormat(service, region, resourceType, sep, resourceName) ==
    <<"arn:", "${Partition}", ":", service, ":", region, ":", "${Account}", ":",
      resourceType, sep, resourceName>>

\* the write statement left unscoped
createExecutionRoleWriteUnscoped ==
    [t |-> "role",
     roleArn |-> <<"${ExecutionRole.Arn}">>,
     created |-> TRUE,
     assumedBy |-> "bedrock-agentcore.amazonaws.com",
     sourceArns |-> <<ArnFormat("bedrock-agentcore", "${Region}", "evaluator", "/", "*"),
                      ArnFormat("bedrock-agentcore", "${Region}", "online-evaluation-config", "/", "*")>>,
     statements |->
        <<PolicyStatement("CloudWatchLogReadStatement", CLOUDWATCH_LOGS_READ_PERMS, <<(<<"*">>)>>),
          PolicyStatement("CloudWatchLogWriteStatement", CLOUDWATCH_LOGS_WRITE_PERMS, <<(<<"*">>)>>),
          PolicyStatement("CloudWatchIndexPolicyStatement", CLOUDWATCH_INDEX_POLICY_PERMS,
              <<ArnFormat("logs", "${Region}", "log-group", ":", "aws/spans"),
                ArnFormat("logs", "${Region}", "log-group", ":", "aws/spans:*")>>),
          PolicyStatement("BedrockInvokeStatement", BEDROCK_MODEL_PERMS,
              <<(<<"arn:", "${Partition}", ":bedrock:*::foundation-model/*">>),
                ArnFormat("bedrock", "*", "inference-profile", "/", "*")>>)>>]

createExecutionRole ==
    [t |-> "role",
     roleArn |-> <<"${ExecutionRole.Arn}">>,
     created |-> TRUE,
     assumedBy |-> "bedrock-agentcore.amazonaws.com",
     sourceArns |-> <<ArnFormat("bedrock-agentcore", "${Region}", "evaluator", "/", "*"),
                      ArnFormat("bedrock-agentcore", "${Region}", "online-evaluation-config", "/", "*")>>,
     statements |->
        <<PolicyStatement("CloudWatchLogReadStatement", CLOUDWATCH_LOGS_READ_PERMS, <<(<<"*">>)>>),
          PolicyStatement("CloudWatchLogWriteStatement", CLOUDWATCH_LOGS_WRITE_PERMS,
              <<ArnFormat("logs", "${Region}", "log-group", ":", "/aws/bedrock-agentcore/evaluations/*")>>),
          PolicyStatement("CloudWatchIndexPolicyStatement", CLOUDWATCH_INDEX_POLICY_PERMS,
              <<ArnFormat("logs", "${Region}", "log-group", ":", "aws/spans"),
                ArnFormat("logs", "${Region}", "log-group", ":", "aws/spans:*")>>),
          PolicyStatement("BedrockInvokeStatement", BEDROCK_MODEL_PERMS,
              <<(<<"arn:", "${Partition}", ":bedrock:*::foundation-model/*">>),
                ArnFormat("bedrock", "*", "inference-profile", "/", "*")>>)>>]

\* a role the caller supplies: nothing is attached to it here
SuppliedRole ==
    [t |-> "role",
     roleArn |-> <<"arn:aws:iam::123456789012:role/supplied">>,
     created |-> FALSE,
     assumedBy |-> "caller",
     sourceArns |-> <<>>,
     statements |-> <<>>]

----------------------------------------------------------------------------
(* OnlineEvaluation: request parameters *)

PhysicalResourceIdReference == [t |-> "PhysicalResourceIdReference"]

\* truthiness of a JavaScript value, as `if (value)` tests it
Truthy(v) ==
    CASE v.t = "string" -> Len(v.s) > 0
      [] v.t = "number" -> ~v.nan /\ v.milli # 0
      [] v.t = "boolean" -> v.b
      [] v.t \in {"undefined", "null"} -> FALSE
      [] OTHER -> TRUE

\* value === false
IsFalse(v) == v.t = "boolean" /\ ~v.b

\* String(value) for the values that are no string, number or boolean
ToStringJs(v) ==
    CASE v.t = "undefined" -> Str(<<"undefined">>)
      [] v.t = "null" -> Str(<<"null">>)
      [] OTHER -> Str(<<"[object Object]">>)

\* no boolean branch: a boolean falls through to String(value)
formatFilterValueNoBoolean(value) ==
    IF value.t = "string" THEN [stringValue |-> value]
    ELSE IF value.t = "number" THEN [doubleValue |-> value]
    ELSE IF value.t = "boolean"
    THEN [stringValue |-> Str(<<IF value.b THEN "true" ELSE "false">>)]
    ELSE [stringValue |-> ToStringJs(value)]

formatFilterValue(value) ==
    IF value.t = "string" THEN [stringValue |-> value]
    ELSE IF value.t = "number" THEN [doubleValue |-> value]
    ELSE IF value.t = "boolean" THEN [booleanValue |-> value]
    ELSE [stringValue |-> ToStringJs(value)]

RenderFilter(f) == [key |-> f.key, operator |-> f.operator, value |-> formatFilterValue(f.value)]

\* the two defaults exchanged
buildRuleConfigSwappedDefaults(p) ==
    LET rule ==
            [samplingConfig |->
                [samplingPercentage |->
                    IF IsNullish(p.samplingPercentage) THEN Whole(15) ELSE p.samplingPercentage],
             sessionConfig |->
                [sessionTimeoutMinutes |->
                    IF IsNullish(p.sessionTimeoutMinutes) THEN Whole(10) ELSE p.sessionTimeoutMinutes]]
    IN  IF Truthy(p.filters) /\ Len(p.filters.a) > 0
        THEN rule @@ ("filters" :> [i \in 1..Len(p.filters.a) |-> RenderFilter(p.filters.a[i])])
        ELSE rule

\* `if (props.filters)`: an empty array is emitted as an empty list
buildRuleConfigEmptyFilters(p) ==
    LET rule ==
            [samplingConfig |->
                [samplingPercentage |->
                    IF IsNullish(p.samplingPercentage) THEN Whole(10) ELSE p.samplingPercentage],
             sessionConfig |->
                [sessionTimeoutMinutes |->
                    IF IsNullish(p.sessionTimeoutMinutes) THEN Whole(15) ELSE p.sessionTimeoutMinutes]]
    IN  IF Truthy(p.filters)
        THEN rule @@ ("filters" :> [i \in 1..Len(p.filters.a) |-> RenderFilter(p.filters.a[i])])
        ELSE rule

buildRuleConfig(p) ==
    LET rule ==
            [samplingConfig |->
                [samplingPercentage |->
                    IF IsNullish(p.samplingPercentage) THEN Whole(10) ELSE p.samplingPercentage],
             sessionConfig |->
                [sessionTimeoutMinutes |->
                    IF IsNullish(p.sessionTimeoutMinutes) THEN Whole(15) ELSE p.sessionTimeoutMinutes]]
    IN  IF Truthy(p.filters) /\ Len(p.filters.a) > 0
        THEN rule @@ ("filters" :> [i \in 1..Len(p.filters.a) |-> RenderFilter(p.filters.a[i])])
        ELSE rule

RenderEvaluators(p) ==
    [i \in 1..Len(p.evaluators.a) |-> EvaluatorReference_render(p.evaluators.a[i])]

\* `if (props.description !== undefined)`: an empty description is sent
buildCreateParamsDefinedDescription(p, executionRole) ==
    LET params ==
            [onlineEvaluationConfigName |-> p.configName,
             evaluators |-> RenderEvaluators(p),
             dataSourceConfig |-> DataSourceConfig_render(p.dataSource).value,
             evaluationExecutionRoleArn |-> executionRole.roleArn,
             enableOnCreate |-> ~IsFalse(p.enableOnCreate)]
        withDescription ==
            IF p.description.t # "undefined"
            THEN params @@ ("description" :> p.description)
            ELSE params
    IN  withDescription @@ ("rule" :> buildRuleConfig(p))

buildCreateParams(p, executionRole) ==
    LET params ==
            [onlineEvaluationConfigName |-> p.configName,
             evaluators |-> RenderEvaluators(p),
             dataSourceConfig |-> DataSourceConfig_render(p.dataSource).value,
             evaluationExecutionRoleArn |-> executionRole.roleArn,
             enableOnCreate |-> ~IsFalse(p.enableOnCreate)]
        withDescription ==
            IF Truthy(p.description)
            THEN params @@ ("description" :> p.description)
            ELSE params
    IN  withDescription @@ ("rule" :> buildRuleConfig(p))

\* `props.enableOnCreate ? ENABLED : DISABLED`: an omitted flag disables
buildUpdateParamsTruthyFlag(p, executionRole) ==
    [onlineEvaluationConfigId |-> PhysicalResourceIdReference,
     evaluators |-> RenderEvaluators(p),
     dataSourceConfig |-> DataSourceConfig_render(p.dataSource).value,
     evaluationExecutionRoleArn |-> executionRole.roleArn,
     description |-> p.description,
     rule |-> buildRuleConfig(p),
     executionStatus |-> IF Truthy(p.enableOnCreate) THEN "ENABLED" ELSE "DISABLED"]

\* the update request built as the create request is, beside its own keys
buildUpdateParamsLikeCreate(p, executionRole) ==
    [onlineEvaluationConfigId |-> PhysicalResourceIdReference,
     onlineEvaluationConfigName |-> p.configName,
     evaluators |-> RenderEvaluators(p),
     dataSourceConfig |-> DataSourceConfig_render(p.dataSource).value,
     evaluationExecutionRoleArn |-> executionRole.roleArn,
     description |-> p.description,
     rule |-> buildRuleConfig(p),
     executionStatus |-> IF IsFalse(p.enableOnCreate) THEN "DISABLED" ELSE "ENABLED"]

buildUpdateParams(p, executionRole) ==
    [onlineEvaluationConfigId |-> PhysicalResourceIdReference,
     evaluators |-> RenderEvaluators(p),
     dataSourceConfig |-> DataSourceConfig_render(p.dataSource).value,
     evaluationExecutionRoleArn |-> executionRole.roleArn,
     description |-> p.description,
     rule |-> buildRuleConfig(p),
     executionStatus |-> IF IsFalse(p.enableOnCreate) THEN "DISABLED" ELSE "ENABLED"]

\* iam:PassRole on every role
CustomResourcePolicyPassAnyRole(executionRole) ==
    <<PolicyStatement("", ADMIN_PERMS, <<(<<"*">>)>>),
      PolicyStatement("", <<"iam:PassRole">>, <<(<<"*">>)>>),
      PolicyStatement("", <<"logs:DescribeIndexPolicies", "logs:PutIndexPolicy", "logs:CreateLogGroup">>,
                      <<(<<"*">>)>>)>>

CustomResourcePolicy(executionRole) ==
    <<PolicyStatement("", ADMIN_PERMS, <<(<<"*">>)>>),
      PolicyStatement("", <<"iam:PassRole">>, <<executionRole.roleArn>>),
      PolicyStatement("", <<"logs:DescribeIndexPolicies", "logs:PutIndexPolicy", "logs:CreateLogGroup">>,
                      <<(<<"*">>)>>)>>

----------------------------------------------------------------------------
(* OnlineEvaluation: constructor *)

\* the description validated before the name, the filters before the evaluators
ConstructorValidationsReordered(p) ==
    <<throwIfInvalid(validateDescription(p.description), TRUE),
      throwIfInvalid(validateConfigName(p.configName), TRUE),
      throwIfInvalid(validateFilters(p.filters), TRUE),
      throwIfInvalid(validateEvaluators(p.evaluators), TRUE),
      throwIfInvalid(validateSamplingPercentage(p.samplingPercentage), TRUE),
      throwIfInvalid(validateSessionTimeout(p.sessionTimeoutMinutes), TRUE)>>

\* the outcome of each throwIfInvalid call of the constructor, in call order
ConstructorValidations(p) ==
    <<throwIfInvalid(validateConfigName(p.configName), TRUE),
      throwIfInvalid(validateDescription(p.description), TRUE),
      throwIfInvalid(validateEvaluators(p.evaluators), TRUE),
      throwIfInvalid(validateSamplingPercentage(p.samplingPercentage), TRUE),
      throwIfInvalid(validateFilters(p.filters), TRUE),
      throwIfInvalid(validateSessionTimeout(p.sessionTimeoutMinutes), TRUE)>>

\* statements run in order: the first call that throws ends the constructor
FirstThrow(outcomes) ==
    IF \E i \in DOMAIN outcomes : outcomes[i].threw
    THEN outcomes[CHOOSE i \in DOMAIN outcomes :
                    /\ outcomes[i].threw
                    /\ \A j \in 1..(i - 1) : ~outcomes[j].threw]
    ELSE NoThrow

\* the four statements added to whichever role is used
ResolveExecutionRoleAlwaysAttaches(p) ==
    LET role == IF IsNullish(p.executionRole) THEN createExecutionRole ELSE p.executionRole
    IN  [role |-> role,
         defined |-> IF IsNullish(p.executionRole) THEN <<"ExecutionRole">> ELSE <<>>,
         attached |-> [i \in 1..Len(createExecutionRole.statements) |->
                            [role |-> role.roleArn,
                             statement |-> createExecutionRole.statements[i]]]]

\* props.executionRole ?? this.createExecutionRole(): the role used, the
\* constructs the step defines and the statements it adds to a role
ResolveExecutionRole(p) ==
    IF IsNullish(p.executionRole)
    THEN [role |-> createExecutionRole,
          defined |-> <<"ExecutionRole">>,
          attached |-> [i \in 1..Len(createExecutionRole.statements) |->
                            [role |-> createExecutionRole.roleArn,
                             statement |-> createExecutionRole.statements[i]]]]
    ELSE [role |-> p.executionRole, defined |-> <<>>, attached |-> <<>>]

NewOnlineEvaluation(p) ==
    LET executionRole == ResolveExecutionRole(p).role
    IN  [t |-> "OnlineEvaluation",
         configName |-> p.configName,
         executionRole |-> executionRole,
         grantPrincipal |-> executionRole,
         onCreate |-> [action |-> "CreateOnlineEvaluationConfig",
                       parameters |-> buildCreateParams(p, executionRole)],
         onUpdate |-> [action |-> "UpdateOnlineEvaluationConfig",
                       parameters |-> buildUpdateParams(p, executionRole)],
         onDelete |-> [action |-> "DeleteOnlineEvaluationConfig",
                       parameters |-> [onlineEvaluationConfigId |-> PhysicalResourceIdReference]],
         policy |-> CustomResourcePolicy(executionRole),
         configId |-> <<"${Resource.onlineEvaluationConfigId}">>,
         configArn |-> <<"${Resource.onlineEvaluationConfigArn}">>]

\* the constructor body with the role resolved ahead of the validations
ConstructorRunRoleFirst(p) ==
    LET v == FirstThrow(ConstructorValidations(p))
        r == ResolveExecutionRole(p)
        rendered == DataSourceConfig_render(p.dataSource)
    IN  IF v.threw
        THEN [phase |-> "threw", thrown |-> v, resource |-> Undefined,
              tree |-> <<"OnlineEvaluation">> \o r.defined, attached |-> r.attached]
        ELSE IF rendered.threw
        THEN [phase |-> "threw",
              thrown |-> [threw |-> TRUE, kind |-> "UnscopedValidationError",
                          message |-> <<rendered.value>>],
              resource |-> Undefined,
              tree |-> <<"OnlineEvaluation">> \o r.defined, attached |-> r.attached]
        ELSE [phase |-> "constructed", thrown |-> NoThrow,
              resource |-> NewOnlineEvaluation(p),
              tree |-> <<"OnlineEvaluation">> \o r.defined \o <<"Resource">>,
              attached |-> r.attached]

\* the constructor body, statement by statement: super(scope, id) defines the
\* construct; a throw ends the body and leaves what the statements before it did
ConstructorRun(p) ==
    LET v == FirstThrow(ConstructorValidations(p))
        r == ResolveExecutionRole(p)
        rendered == DataSourceConfig_render(p.dataSource)
    IN  IF v.threw
        THEN [phase |-> "threw", thrown |-> v, resource |-> Undefined,
              tree |-> <<"OnlineEvaluation">>, attached |-> <<>>]
        ELSE IF rendered.threw
        THEN [phase |-> "threw",
              thrown |-> [threw |-> TRUE, kind |-> "UnscopedValidationError",
                          message |-> <<rendered.value>>],
              resource |-> Undefined,
              tree |-> <<"OnlineEvaluation">> \o r.defined, attached |-> r.attached]
        ELSE [phase |-> "constructed", thrown |-> NoThrow,
              resource |-> NewOnlineEvaluation(p),
              tree |-> <<"OnlineEvaluation">> \o r.defined \o <<"Resource">>,
              attached |-> r.attached]

\* new OnlineEvaluation(scope, id, props)
Construct(p) ==
    LET run == ConstructorRun(p)
    IN  /\ props' = p
        /\ phase' = run.phase
        /\ thrown' = run.thrown
        /\ resource' = run.resource
        /\ tree' = run.tree
        /\ attached' = run.attached
        /\ UNCHANGED <<call, errors, result>>

----------------------------------------------------------------------------
(* OnlineEvaluation: imports *)

\* Arn.format({service, resource, resourceName}, stack) in the default
\* slash-resource-name format, separators as fragments of their own
ArnFormatSlashResourceName(service, resourceType, resourceName) ==
    <<"arn", ":", "${Partition}", ":", service, ":", "${Region}", ":", "${Account}", ":",
      resourceType, "/">> \o resourceName

\* Arn.split(arn, ArnFormat.SLASH_RESOURCE_NAME): the resource is what follows
\* the fifth colon, the resource name what follows its first slash
ArnSplit(arn) ==
    LET colons == {i \in DOMAIN arn : arn[i] = ":"}
        fifth == CHOOSE i \in colons : Cardinality({j \in colons : j <= i}) = 5
        slashes == {i \in DOMAIN arn : i > fifth /\ arn[i] = "/"}
        slash == CHOOSE i \in slashes : \A j \in slashes : i <= j
    IN  [service |-> arn[5],
         resource |-> SubSeq(arn, fifth + 1, slash - 1),
         resourceName |-> SubSeq(arn, slash + 1, Len(arn))]

\* iam.Role.fromRoleArn(scope, `${id}Role`, roleArn)
RoleFromRoleArn(id, roleArn) ==
    [t |-> "role", id |-> id, roleArn |-> roleArn, created |-> FALSE]

\* new iam.UnknownPrincipal({ resource: this })
UnknownPrincipal == [t |-> "UnknownPrincipal"]

\* a role made whether or not an ARN was given
ImportExecutionRoleAlways(attrs) ==
    RoleFromRoleArn("ImportedRole",
        IF attrs.executionRoleArn.t = "string" THEN attrs.executionRoleArn.s ELSE <<>>)

\* the executionRole field of an imported resource
ImportExecutionRole(attrs) ==
    IF Truthy(attrs.executionRoleArn)
    THEN RoleFromRoleArn("ImportedRole", attrs.executionRoleArn.s)
    ELSE Undefined

\* fromAttributes(scope, id, attrs): the imported resource
fromAttributes(attrs) ==
    LET executionRole == ImportExecutionRole(attrs)
    IN  [t |-> "Import",
         configArn |-> attrs.configArn,
         configId |-> attrs.configId,
         configName |-> attrs.configName,
         executionRole |-> executionRole,
         status |-> Undefined,
         executionStatus |-> Undefined,
         grantPrincipal |-> IF IsNullish(executionRole) THEN UnknownPrincipal ELSE executionRole]

\* the ARN formatted for another resource type
fromConfigIdAsEvaluator(configId) ==
    fromAttributes(
        [configArn |-> ArnFormatSlashResourceName("bedrock-agentcore", "evaluator", configId),
         configId |-> configId,
         configName |-> configId,
         executionRoleArn |-> Undefined])

\* fromConfigId(scope, id, configId)
fromConfigId(configId) ==
    fromAttributes(
        [configArn |-> ArnFormatSlashResourceName("bedrock-agentcore",
                                                  "online-evaluation-config", configId),
         configId |-> configId,
         configName |-> configId,
         executionRoleArn |-> Undefined])

\* fromConfigArn(scope, id, configArn)
fromConfigArn(configArn) ==
    LET configId == ArnSplit(configArn).resourceName
    IN  fromAttributes(
            [configArn |-> configArn,
             configId |-> configId,
             configName |-> configId,
             executionRoleArn |-> Undefined])

\* the constructs an import defines in the scope: the resource, then its role
ImportDefines(imported) ==
    IF IsNullish(imported.executionRole)
    THEN <<"Imported">>
    ELSE <<"Imported", imported.executionRole.id>>

----------------------------------------------------------------------------
(* OnlineEvaluationConfigBase: grants and metrics *)

\* the statement granted on every resource
grantOnAnyResource(this, grantee, actions) ==
    [grantee |-> grantee, actions |-> actions, resourceArns |-> <<(<<"*">>)>>]

\* grant(grantee, ...actions): what Grant.addToPrincipal is given
grant(this, grantee, actions) ==
    [grantee |-> grantee, actions |-> actions, resourceArns |-> <<this.configArn>>]

grantAdmin(this, grantee) == grant(this, grantee, ADMIN_PERMS)

\* { ...props } of an optional options object
Spread(options) == IF IsNullish(options) THEN <<>> ELSE options.fields

\* configureMetric(props): new Metric({...props, region, account})
configureMetric(this, metricProps) ==
    [region |-> IF "region" \in DOMAIN metricProps /\ ~IsNullish(metricProps.region)
                THEN metricProps.region ELSE Str(<<"${Region}">>),
     account |-> IF "account" \in DOMAIN metricProps /\ ~IsNullish(metricProps.account)
                 THEN metricProps.account ELSE Str(<<"${Account}">>)]
        @@ metricProps

\* the options spread ahead of the fixed keys, which then always win
metricOptionsFirst(this, metricName, options) ==
    configureMetric(this,
        [namespace |-> "AWS/Bedrock-AgentCore",
         metricName |-> metricName,
         dimensionsMap |-> [OnlineEvaluationConfigId |-> this.configId]]
            @@ Spread(options))

\* metric(metricName, props): the fixed keys, then the caller's options over them
metric(this, metricName, options) ==
    configureMetric(this,
        Spread(options)
            @@ [namespace |-> "AWS/Bedrock-AgentCore",
                metricName |-> metricName,
                dimensionsMap |-> [OnlineEvaluationConfigId |-> this.configId]])

\* { statistic, ...props }
WithStatistic(statistic, options) ==
    [t |-> "object", fields |-> Spread(options) @@ [statistic |-> statistic]]

metricEvaluationCount(this, options) ==
    metric(this, "EvaluationCount", WithStatistic("SUM", options))

metricEvaluationErrors(this, options) ==
    metric(this, "EvaluationErrors", WithStatistic("SUM", options))

metricEvaluationLatency(this, options) ==
    metric(this, "EvaluationLatency", WithStatistic("AVERAGE", options))

----------------------------------------------------------------------------
(* Inputs *)

NameChars == {"a", "Z", "7", "_", "-"}
NameEnds == {<<>>} \cup {<<c>> : c \in NameChars}

\* a first character, a run of one repeated character, a last character
PlainNames ==
    {Str(h \o Repeat(f, k) \o e) :
        h \in NameEnds, f \in {"a", "_"}, k \in 0..(MaxNameLen - 2), e \in NameEnds}

\* strings that carry a token marker: alone, after text, inside a long string
TokenStrings(max) ==
    {Str(TokenMarker), Str(<<"a">> \o TokenMarker \o <<"-">>),
     Str(Repeat("a", max) \o TokenMarker)}

NameInputs == {Undefined, Null} \cup PlainNames \cup TokenStrings(CONFIG_NAME_MAX_LENGTH)

DescriptionInputs ==
    {Undefined, Null}
        \cup {Str(Repeat(c, k)) : c \in {"d", " "}, k \in 0..MaxDescLen}
        \cup TokenStrings(DESCRIPTION_MAX_LENGTH)

EvaluatorPool ==
    <<EvaluatorReference_builtin(BuiltinEvaluator.HELPFULNESS),
      EvaluatorReference_builtin(BuiltinEvaluator.CORRECTNESS),
      EvaluatorReference_custom("my-custom-evaluator")>>

\* n evaluators taken in turn from the pool, starting after the first `off`
EvaluatorArray(n, off) == Arr([i \in 1..n |-> EvaluatorPool[((i + off) % 3) + 1]])
\* Array(n).fill(evaluator)
EvaluatorFill(n) == Arr([i \in 1..n |-> EvaluatorPool[1]])

EvaluatorInputs ==
    {Undefined, Null}
        \cup {EvaluatorArray(n, off) : n \in 0..MaxEvaluators, off \in 0..2}
        \cup {EvaluatorFill(n) : n \in 0..MaxEvaluators}

NumberTokens == {NumberToken(id) : id \in 0..2}

SamplingInputs ==
    {Undefined, Null, NaN, Num(0 - 1000), Whole(10), Whole(50)}
        \cup {Num(m) : m \in 0..(10 + SamplingMargin)}
        \cup {Num(m) : m \in (100000 - SamplingMargin)..(100000 + SamplingMargin)}
        \cup NumberTokens

TimeoutInputs ==
    {Undefined, Null, NaN, Num(999), Num(1001), Num(1500), Num(1439999), Num(1440001)}
        \cup {Whole(n) : n \in (0 - 1)..MaxMinutes}
        \cup NumberTokens

FilterPool ==
    <<[key |-> "user.region", operator |-> "Equals", value |-> Str(<<"us-east-1">>)],
      [key |-> "latency", operator |-> "GreaterThan", value |-> Num(1500)],
      [key |-> "is_test", operator |-> "NotEquals", value |-> Bool(TRUE)]>>

FilterArray(n, off) == Arr([i \in 1..n |-> FilterPool[((i + off) % 3) + 1]])

FilterInputs ==
    {Undefined, Null} \cup {FilterArray(n, off) : n \in 0..MaxFilters, off \in 0..2}

LogGroupArray(n) == Arr([i \in 1..n |-> <<"/aws/log-group-", i>>])

LogGroupInputs == {Undefined, Null} \cup {LogGroupArray(n) : n \in 0..MaxLogGroups}

CloudWatchLogsConfig(n) ==
    [t |-> "object", logGroupNames |-> LogGroupArray(n), serviceNames |-> Arr(<<(<<"service">>)>>)]

\* the props the constructor is explored with: each field at, inside and
\* outside its limits, absent where it is optional, and deferred
CtorNames ==
    {Str(<<"a", "1", "_">>), Str(<<>>), Str(<<"1", "a">>),
     Str(Repeat("a", CONFIG_NAME_MAX_LENGTH + 1)), Str(TokenMarker)}
CtorDescriptions ==
    {Undefined, Str(Repeat("d", DESCRIPTION_MAX_LENGTH)),
     Str(Repeat("d", DESCRIPTION_MAX_LENGTH + 1)),
     Str(Repeat("d", DESCRIPTION_MAX_LENGTH) \o TokenMarker)}
CtorEvaluators ==
    {EvaluatorArray(0, 0), EvaluatorArray(1, 0), EvaluatorArray(EVALUATORS_MAX_COUNT, 1),
     EvaluatorFill(EVALUATORS_MAX_COUNT + 1)}
CtorSampling ==
    {Undefined, Num(1), SAMPLING_PERCENTAGE_MIN, SAMPLING_PERCENTAGE_MAX,
     Num(SAMPLING_PERCENTAGE_MAX.milli + 1), NaN, NumberToken(1)}
CtorFilters == {Undefined, FilterArray(FILTERS_MAX_COUNT, 0), FilterArray(FILTERS_MAX_COUNT + 1, 0)}
CtorTimeouts ==
    {Undefined, Whole(0), SESSION_TIMEOUT_MIN, SESSION_TIMEOUT_MAX,
     Num(SESSION_TIMEOUT_MAX.milli + 1000), NaN, NumberToken(2)}
CtorDataSources ==
    {fromCloudWatchLogs(CloudWatchLogsConfig(1)),
     fromCloudWatchLogs(CloudWatchLogsConfig(0)),
     fromCloudWatchLogs(CloudWatchLogsConfig(LOG_GROUPS_MAX_COUNT + 1))}

CtorProps ==
    [configName : CtorNames,
     description : CtorDescriptions,
     evaluators : CtorEvaluators,
     samplingPercentage : CtorSampling,
     filters : CtorFilters,
     sessionTimeoutMinutes : CtorTimeouts,
     dataSource : CtorDataSources,
     enableOnCreate : {Undefined},
     executionRole : {Undefined}]

\* ids handed to EvaluatorReference.custom
CustomEvaluatorIds == {"my-custom-evaluator-id", "", "Builtin.Helpfulness", "not an id !"}

\* every list of at most MaxListLen names, repeats and either order included
RECURSIVE ListsOver(_, _)
ListsOver(names, n) ==
    IF n = 0 THEN {<<>>}
    ELSE ListsOver(names, n - 1)
            \cup {Append(l, x) : l \in ListsOver(names, n - 1), x \in names}

CloudWatchLogsConfigs ==
    {[t |-> "object", logGroupNames |-> Arr(l), serviceNames |-> Arr(sv)] :
        l \in ListsOver({<<"/aws/logs/one">>, <<"/aws/logs/two">>}, MaxListLen),
        sv \in ListsOver({<<"svc.one">>, <<"svc.two">>}, MaxListLen)}
        \cup {CloudWatchLogsConfig(LOG_GROUPS_MAX_COUNT + 1)}

\* agent runtimes: a literal id, and the deferred id of a runtime of the same stack
Runtimes ==
    {[agentRuntimeId |-> <<"my_runtime-a1b2c3">>, agentRuntimeName |-> <<"my_runtime">>],
     [agentRuntimeId |-> <<"${Token[TOKEN.7]}">>, agentRuntimeName |-> <<"test_agent">>]}

EndpointNames == {<<"PROD">>, <<"DEFAULT">>, <<"staging_1">>, <<>>}

\* the endpoint argument: omitted, a name, or an endpoint object
Endpoints ==
    {Undefined}
        \cup {Str(n) : n \in EndpointNames}
        \cup {[t |-> "object", endpointName |-> n] : n \in EndpointNames}

AgentEndpointConfigs ==
    {[t |-> "object", agentRuntimeId |-> Str(id), endpointName |-> e] :
        id \in {<<"my-runtime-id">>, <<"${Token[TOKEN.7]}">>},
        e \in {Undefined, Null} \cup {Str(n) : n \in EndpointNames}}

DataSourceType == {"CLOUDWATCH_LOGS", "AGENT_ENDPOINT"}

\* every DataSourceConfig its constructor can build
DataSourceConfigs ==
    {DataSourceConfig_new(type, cw, ae) :
        type \in DataSourceType,
        cw \in {Undefined, CloudWatchLogsConfig(1), CloudWatchLogsConfig(0)},
        ae \in {Undefined} \cup AgentEndpointConfigs}

\* filter values: the three supported types and values of other types
FilterValues ==
    {Str(<<"us-east-1">>), Str(<<>>), Str(<<"4", "2">>), Str(<<"true">>),
     Num(1500), Num(0), Num(0 - 2500), NaN,
     Bool(TRUE), Bool(FALSE),
     Undefined, Null, [t |-> "object"]}

\* props every validator accepts: each optional field absent and present
ConfiguredProps ==
    [configName : {Str(<<"a", "1", "_">>)},
     description : {Undefined, Str(<<>>), Str(<<"d">>), Str(TokenMarker)},
     evaluators : {EvaluatorArray(1, 0), EvaluatorArray(EVALUATORS_MAX_COUNT, 1)},
     samplingPercentage :
        {Undefined, SAMPLING_PERCENTAGE_MIN, Num(12345), SAMPLING_PERCENTAGE_MAX, NaN,
         NumberToken(1)},
     filters : {Undefined, FilterArray(0, 0), FilterArray(2, 0), FilterArray(FILTERS_MAX_COUNT, 1)},
     sessionTimeoutMinutes :
        {Undefined, SESSION_TIMEOUT_MIN, Num(1500), SESSION_TIMEOUT_MAX, NumberToken(2)},
     dataSource :
        {fromCloudWatchLogs(CloudWatchLogsConfig(1)),
         fromAgentEndpoint([t |-> "object", agentRuntimeId |-> Str(<<"my-runtime-id">>),
                            endpointName |-> Undefined]),
         fromAgentRuntimeEndpoint(
            [agentRuntimeId |-> <<"my_runtime-a1b2c3">>, agentRuntimeName |-> <<"my_runtime">>],
            Undefined),
         fromCloudWatchLogs(Undefined)},
     enableOnCreate : {Undefined, Bool(TRUE), Bool(FALSE)},
     executionRole : {Undefined, SuppliedRole}]

\* ids and ARNs of configurations that exist outside the stack
ConfigIds == {<<"my-config-id">>, <<"config", "-", "0123456789">>, <<"a">>}

ConfigArns ==
    {<<"arn", ":", partition, ":", "bedrock-agentcore", ":", "us-east-1", ":", "123456789012",
       ":", "online-evaluation-config", "/">> \o id :
        partition \in {"aws", "aws-cn"}, id \in ConfigIds}

\* attributes as a caller may give them: the three strings need not agree,
\* the role ARN may be absent or empty
ImportAttributes ==
    [configArn : {a \in ConfigArns : a[3] = "aws"},
     configId : {<<"my-config-id">>, <<"a">>},
     configName : {<<"my_config">>, <<>>},
     executionRoleArn :
        {Undefined, Str(<<>>), Str(<<"arn:aws:iam::123456789012:role/MyRole">>)}]

\* props of the resources the grant and metric methods are called on
AccessProps ==
    [configName : {Str(<<"a", "1", "_">>)},
     description : {Undefined},
     evaluators : {EvaluatorArray(1, 0)},
     samplingPercentage : {Undefined},
     filters : {Undefined},
     sessionTimeoutMinutes : {Undefined},
     dataSource : {fromCloudWatchLogs(CloudWatchLogsConfig(1))},
     enableOnCreate : {Undefined},
     executionRole : {Undefined, SuppliedRole}]

Grantees == {"role/reader", "user/operator"}

GrantActions ==
    {<<>>, <<"bedrock-agentcore:GetOnlineEvaluationConfig">>, READ_PERMS, ADMIN_PERMS,
     <<"s3:GetObject", "s3:GetObject">>}

MetricNames == {"TestMetric", "EvaluationCount", ""}

\* MetricOptions: none, empty, and objects carrying some of its keys
MetricOptionsInputs ==
    {Undefined}
        \cup {[t |-> "object", fields |-> f] :
                f \in {<<>>,
                       [statistic |-> "MAXIMUM"],
                       [period |-> "Duration.minutes(1)", label |-> "evaluations"],
                       [region |-> Str(<<"eu-west-1">>), account |-> Str(<<"210987654321">>)],
                       [dimensionsMap |-> [Environment |-> <<"prod">>]],
                       [statistic |-> "p99",
                        dimensionsMap |-> [OnlineEvaluationConfigId |-> <<"another-id">>]]}}

----------------------------------------------------------------------------
(* Actions *)

Init ==
    /\ phase = "ready"
    /\ call = [fn |-> "none", arg |-> Undefined]
    /\ errors = <<>>
    /\ props = Undefined
    /\ thrown = NoThrow
    /\ resource = Undefined
    /\ result = Undefined
    /\ tree = <<>>
    /\ attached = <<>>

\* a direct call fn(arg) of a validation function, returning errs
Called(fn, arg, errs) ==
    /\ phase' = "called"
    /\ call' = [fn |-> fn, arg |-> arg]
    /\ errors' = errs
    /\ UNCHANGED <<result, props, thrown, resource, tree, attached>>

CallValidateConfigName ==
    /\ phase = "ready"
    /\ \E v \in NameInputs :
        Called("validateConfigName", v, validateConfigName(v))

CallValidateDescription ==
    /\ phase = "ready"
    /\ \E v \in DescriptionInputs :
        Called("validateDescription", v, validateDescription(v))

CallValidateEvaluators ==
    /\ phase = "ready"
    /\ \E v \in EvaluatorInputs :
        Called("validateEvaluators", v, validateEvaluators(v))

CallValidateSamplingPercentage ==
    /\ phase = "ready"
    /\ \E v \in SamplingInputs :
        Called("validateSamplingPercentage", v, validateSamplingPercentage(v))

CallValidateFilters ==
    /\ phase = "ready"
    /\ \E v \in FilterInputs :
        Called("validateFilters", v, validateFilters(v))

CallValidateSessionTimeout ==
    /\ phase = "ready"
    /\ \E v \in TimeoutInputs :
        Called("validateSessionTimeout", v, validateSessionTimeout(v))

CallValidateLogGroupNames ==
    /\ phase = "ready"
    /\ \E v \in LogGroupInputs :
        Called("validateLogGroupNames", v, validateLogGroupNames(v))

ConstructOnlineEvaluation ==
    /\ phase = "ready"
    /\ \E p \in CtorProps : Construct(p)

Next ==
    \/ CallValidateConfigName
    \/ CallValidateDescription
    \/ CallValidateEvaluators
    \/ CallValidateSamplingPercentage
    \/ CallValidateFilters
    \/ CallValidateSessionTimeout
    \/ CallValidateLogGroupNames
    \/ ConstructOnlineEvaluation

Spec == Init /\ [][Next]_vars

\* a direct call fn(arg) of a factory, render or format function, returning value
Returned(fn, arg, value) ==
    /\ phase' = "returned"
    /\ call' = [fn |-> fn, arg |-> arg]
    /\ result' = value
    /\ UNCHANGED <<errors, props, thrown, resource, tree, attached>>

\* EvaluatorReference.builtin(BuiltinEvaluator.X)._render()
CallEvaluatorBuiltin ==
    /\ phase = "ready"
    /\ \E member \in DOMAIN BuiltinEvaluator :
        Returned("EvaluatorReference.builtin", member,
                 EvaluatorReference_render(EvaluatorReference_builtin(BuiltinEvaluator[member])))

\* EvaluatorReference.custom(id)._render()
CallEvaluatorCustom ==
    /\ phase = "ready"
    /\ \E id \in CustomEvaluatorIds :
        Returned("EvaluatorReference.custom", id,
                 EvaluatorReference_render(EvaluatorReference_custom(id)))

\* DataSourceConfig.fromCloudWatchLogs(config)._render()
CallFromCloudWatchLogs ==
    /\ phase = "ready"
    /\ \E config \in CloudWatchLogsConfigs :
        Returned("DataSourceConfig.fromCloudWatchLogs", config,
                 DataSourceConfig_render(fromCloudWatchLogs(config)))

\* DataSourceConfig.fromAgentRuntimeEndpoint(runtime, endpoint)._render()
CallFromAgentRuntimeEndpoint ==
    /\ phase = "ready"
    /\ \E runtime \in Runtimes, endpoint \in Endpoints :
        Returned("DataSourceConfig.fromAgentRuntimeEndpoint",
                 [runtime |-> runtime, endpoint |-> endpoint],
                 DataSourceConfig_render(fromAgentRuntimeEndpoint(runtime, endpoint)))

\* DataSourceConfig.fromAgentEndpoint(config)._render()
CallFromAgentEndpoint ==
    /\ phase = "ready"
    /\ \E config \in AgentEndpointConfigs :
        Returned("DataSourceConfig.fromAgentEndpoint", config,
                 DataSourceConfig_render(fromAgentEndpoint(config)))

\* ds._render() of a DataSourceConfig however it was built
CallDataSourceRender ==
    /\ phase = "ready"
    /\ \E ds \in DataSourceConfigs :
        Returned("DataSourceConfig._render", ds, DataSourceConfig_render(ds))

\* formatFilterValue(value)
CallFormatFilterValue ==
    /\ phase = "ready"
    /\ \E value \in FilterValues :
        Returned("formatFilterValue", value, formatFilterValue(value))

\* new OnlineEvaluation(scope, id, props) with props that pass validation
ConstructConfigured ==
    /\ phase = "ready"
    /\ \E p \in ConfiguredProps : Construct(p)

NextConfigured ==
    \/ CallEvaluatorBuiltin
    \/ CallEvaluatorCustom
    \/ CallFromCloudWatchLogs
    \/ CallFromAgentRuntimeEndpoint
    \/ CallFromAgentEndpoint
    \/ CallDataSourceRender
    \/ CallFormatFilterValue
    \/ ConstructConfigured

SpecConfigured == Init /\ [][NextConfigured]_vars

\* an import: the resource it returns and the constructs it defines
Imported(fn, arg, imported) ==
    /\ phase' = "imported"
    /\ call' = [fn |-> fn, arg |-> arg]
    /\ resource' = imported
    /\ tree' = ImportDefines(imported)
    /\ UNCHANGED <<errors, result, props, thrown, attached>>

ImportFromConfigId ==
    /\ phase = "ready"
    /\ \E configId \in ConfigIds : Imported("fromConfigId", configId, fromConfigId(configId))

ImportFromConfigArn ==
    /\ phase = "ready"
    /\ \E configArn \in ConfigArns :
        Imported("fromConfigArn", configArn, fromConfigArn(configArn))

ImportFromAttributes ==
    /\ phase = "ready"
    /\ \E attrs \in ImportAttributes : Imported("fromAttributes", attrs, fromAttributes(attrs))

\* fromConfigArn(scope, id2, imported.configArn) of a resource imported by id
ReimportByArn ==
    /\ phase = "imported"
    /\ call.fn = "fromConfigId"
    /\ Imported("fromConfigId.configArn", call.arg, fromConfigArn(resource.configArn))

\* new OnlineEvaluation(scope, id, props), to call its methods
ConstructAccessed ==
    /\ phase = "ready"
    /\ \E p \in AccessProps : Construct(p)

\* a method called on the resource, created or imported
Method(fn, arg, value) ==
    /\ phase' = "method"
    /\ call' = [fn |-> fn, arg |-> arg]
    /\ result' = value
    /\ UNCHANGED <<errors, props, thrown, resource, tree, attached>>

CallGrant ==
    /\ phase \in {"constructed", "imported"}
    /\ \E grantee \in Grantees, actions \in GrantActions :
        Method("grant", [grantee |-> grantee, actions |-> actions],
               grant(resource, grantee, actions))

CallGrantAdmin ==
    /\ phase \in {"constructed", "imported"}
    /\ \E grantee \in Grantees :
        Method("grantAdmin", [grantee |-> grantee], grantAdmin(resource, grantee))

CallMetric ==
    /\ phase \in {"constructed", "imported"}
    /\ \E metricName \in MetricNames, options \in MetricOptionsInputs :
        Method("metric", [metricName |-> metricName, options |-> options],
               metric(resource, metricName, options))

CallMetricEvaluationCount ==
    /\ phase \in {"constructed", "imported"}
    /\ \E options \in MetricOptionsInputs :
        Method("metricEvaluationCount", [options |-> options],
               metricEvaluationCount(resource, options))

CallMetricEvaluationErrors ==
    /\ phase \in {"constructed", "imported"}
    /\ \E options \in MetricOptionsInputs :
        Method("metricEvaluationErrors", [options |-> options],
               metricEvaluationErrors(resource, options))

CallMetricEvaluationLatency ==
    /\ phase \in {"constructed", "imported"}
    /\ \E options \in MetricOptionsInputs :
        Method("metricEvaluationLatency", [options |-> options],
               metricEvaluationLatency(resource, options))

NextAccess ==
    \/ ImportFromConfigId
    \/ ImportFromConfigArn
    \/ ImportFromAttributes
    \/ ReimportByArn
    \/ ConstructAccessed
    \/ CallGrant
    \/ CallGrantAdmin
    \/ CallMetric
    \/ CallMetricEvaluationCount
    \/ CallMetricEvaluationErrors
    \/ CallMetricEvaluationLatency

SpecAccess == Init /\ [][NextAccess]_vars

----------------------------------------------------------------------------
(* Properties *)

Constructing == phase \in {"constructed", "threw"}

CalledFn(fn) == phase = "called" /\ call.fn = fn

\* a value that is present and not deferred
Resolved(v) == ~IsNullish(v) /\ ~IsUnresolved(v)

Texts(msgs) == {msgs[i].text : i \in DOMAIN msgs}

NameTexts ==
    {"Configuration name must be at least LIMIT character(s), got GOT",
     "Configuration name must be at most LIMIT characters, got GOT",
     "Configuration name NAME does not match required pattern. Must start with a letter and contain only alphanumeric characters and underscores."}
DescriptionTexts == {"Description must be at most LIMIT characters, got GOT"}
EvaluatorTexts ==
    {"Evaluators array is required", "At least LIMIT evaluator is required, got GOT",
     "At most LIMIT evaluators are allowed, got GOT"}
SamplingTexts ==
    {"Sampling percentage must be at least LIMIT, got GOT",
     "Sampling percentage must be at most LIMIT, got GOT"}
FilterTexts == {"At most LIMIT filters are allowed, got GOT"}
TimeoutTexts ==
    {"Session timeout must be at least LIMIT minute(s), got GOT",
     "Session timeout must be at most LIMIT minutes, got GOT"}

\* a letter followed by at most 47 letters, digits or underscores
C1_Matches(s) ==
    /\ Len(s) \in 1..48
    /\ s[1] \in LowerCase \cup UpperCase
    /\ \A i \in 2..Len(s) : s[i] \in LowerCase \cup UpperCase \cup DigitChars \cup {"_"}

\* C1: validateConfigName returns no error for a resolved name exactly when the
\* name is a letter followed by at most 47 letters, digits or underscores, and
\* constructing the resource with any other resolved name throws.
C1_ConfigNamePattern ==
    /\ (CalledFn("validateConfigName") /\ Resolved(call.arg))
            => ((Len(errors) = 0) <=> C1_Matches(call.arg.s))
    /\ (Constructing /\ Resolved(props.configName) /\ ~C1_Matches(props.configName.s))
            => (phase = "threw" /\ Texts(thrown.message) \cap NameTexts # {})

\* a 48-character name is accepted, and the resource is constructed with it
C1_Witness ==
    /\ CalledFn("validateConfigName")
    /\ Resolved(call.arg)
    /\ Len(call.arg.s) = 48
    /\ Len(errors) = 0

\* 0.01 <= p <= 100
C2_InRange(p) == ~p.nan /\ 10 <= p.milli /\ p.milli <= 100000

\* C2: for a resolved samplingPercentage p validation passes exactly when
\* 0.01 <= p <= 100; below 0.01 it reports 'at least 0.01', above 100 it
\* reports 'at most 100', and construction throws in both cases.
C2_SamplingRange ==
    /\ (CalledFn("validateSamplingPercentage") /\ Resolved(call.arg))
            => /\ (Len(errors) = 0) <=> C2_InRange(call.arg)
               /\ (~call.arg.nan /\ call.arg.milli < 10)
                    => Texts(errors) = {"Sampling percentage must be at least LIMIT, got GOT"}
               /\ (~call.arg.nan /\ call.arg.milli > 100000)
                    => Texts(errors) = {"Sampling percentage must be at most LIMIT, got GOT"}
    /\ (Constructing /\ Resolved(props.samplingPercentage)
            /\ ~C2_InRange(props.samplingPercentage))
            => phase = "threw"

\* the same for every resolved samplingPercentage but NaN
C2_SamplingRangeButNaN ==
    /\ (CalledFn("validateSamplingPercentage") /\ Resolved(call.arg) /\ ~call.arg.nan)
            => /\ (Len(errors) = 0) <=> C2_InRange(call.arg)
               /\ (call.arg.milli < 10)
                    => Texts(errors) = {"Sampling percentage must be at least LIMIT, got GOT"}
               /\ (call.arg.milli > 100000)
                    => Texts(errors) = {"Sampling percentage must be at most LIMIT, got GOT"}
    /\ (Constructing /\ Resolved(props.samplingPercentage)
            /\ ~props.samplingPercentage.nan /\ ~C2_InRange(props.samplingPercentage))
            => phase = "threw"

\* NaN is neither below 0.01 nor above 100: it passes validation
C2_NaNAccepted ==
    /\ CalledFn("validateSamplingPercentage")
    /\ call.arg = NaN
    /\ Len(errors) = 0

\* C3: the evaluators check passes exactly when the array has 1..10 entries;
\* an empty array fails with 'At least 1 evaluator is required', more than 10
\* entries fail with 'At most 10 evaluators are allowed'; duplicates count.
C3_EvaluatorCount ==
    /\ (CalledFn("validateEvaluators") /\ ~IsNullish(call.arg))
            => /\ (Len(errors) = 0) <=> (Len(call.arg.a) \in 1..10)
               /\ (Len(call.arg.a) = 0)
                    => Texts(errors) = {"At least LIMIT evaluator is required, got GOT"}
               /\ (Len(call.arg.a) > 10)
                    => Texts(errors) = {"At most LIMIT evaluators are allowed, got GOT"}
               /\ \A i \in DOMAIN errors : errors[i].got = Len(call.arg.a)
    /\ Constructing
            => /\ (Len(props.evaluators.a) \notin 1..10) => phase = "threw"
               /\ (Texts(thrown.message) \cap EvaluatorTexts # {})
                    => (Len(props.evaluators.a) \notin 1..10)

\* ten copies of the same evaluator pass
C3_Witness ==
    /\ CalledFn("validateEvaluators")
    /\ call.arg = EvaluatorFill(10)
    /\ Len(errors) = 0

\* 1 <= m <= 1440
C4_InRange(m) == ~m.nan /\ 1000 <= m.milli /\ m.milli <= 1440000

\* C4: for a resolved sessionTimeoutMinutes m validation passes exactly when
\* 1 <= m <= 1440; below 1 it reports 'at least 1 minute', above 1440 it
\* reports 'at most 1440 minutes'.
C4_SessionTimeoutRange ==
    /\ (CalledFn("validateSessionTimeout") /\ Resolved(call.arg))
            => /\ (Len(errors) = 0) <=> C4_InRange(call.arg)
               /\ (~call.arg.nan /\ call.arg.milli < 1000)
                    => Texts(errors) = {"Session timeout must be at least LIMIT minute(s), got GOT"}
               /\ (~call.arg.nan /\ call.arg.milli > 1440000)
                    => Texts(errors) = {"Session timeout must be at most LIMIT minutes, got GOT"}
    /\ (Constructing /\ Resolved(props.sessionTimeoutMinutes)
            /\ ~C4_InRange(props.sessionTimeoutMinutes))
            => phase = "threw"

\* the same for every resolved sessionTimeoutMinutes but NaN
C4_SessionTimeoutRangeButNaN ==
    /\ (CalledFn("validateSessionTimeout") /\ Resolved(call.arg) /\ ~call.arg.nan)
            => /\ (Len(errors) = 0) <=> C4_InRange(call.arg)
               /\ (call.arg.milli < 1000)
                    => Texts(errors) = {"Session timeout must be at least LIMIT minute(s), got GOT"}
               /\ (call.arg.milli > 1440000)
                    => Texts(errors) = {"Session timeout must be at most LIMIT minutes, got GOT"}
    /\ (Constructing /\ Resolved(props.sessionTimeoutMinutes)
            /\ ~props.sessionTimeoutMinutes.nan /\ ~C4_InRange(props.sessionTimeoutMinutes))
            => phase = "threw"

\* a resource is constructed with a NaN session timeout
C4_NaNAccepted ==
    /\ phase = "constructed"
    /\ props.sessionTimeoutMinutes.t = "number"
    /\ props.sessionTimeoutMinutes.nan
    /\ resource.onCreate.parameters.rule.sessionConfig.sessionTimeoutMinutes.nan

\* C5: a filters array passes validation exactly when it has at most 5
\* entries, the empty array included; 6 or more make construction throw with
\* 'At most 5 filters are allowed'.
C5_FilterCount ==
    /\ (CalledFn("validateFilters") /\ ~IsNullish(call.arg))
            => /\ (Len(errors) = 0) <=> (Len(call.arg.a) <= 5)
               /\ (Len(call.arg.a) > 5)
                    => Texts(errors) = {"At most LIMIT filters are allowed, got GOT"}
    /\ (Constructing /\ ~IsNullish(props.filters))
            => /\ (Len(props.filters.a) > 5) => phase = "threw"
               /\ (Texts(thrown.message) \cap FilterTexts # {}) => (Len(props.filters.a) > 5)

\* construction throws 'At most 5 filters are allowed' for six filters
C5_Witness ==
    /\ phase = "threw"
    /\ ~IsNullish(props.filters)
    /\ Len(props.filters.a) = 6
    /\ Texts(thrown.message) = FilterTexts

\* C6: a resolved description passes validation exactly when it has at most
\* 200 characters; the empty string passes, 201 characters fail with
\* 'at most 200 characters'.
C6_DescriptionLength ==
    /\ (CalledFn("validateDescription") /\ Resolved(call.arg))
            => /\ (Len(errors) = 0) <=> (Len(call.arg.s) <= 200)
               /\ (Len(call.arg.s) > 200)
                    => Texts(errors) = {"Description must be at most LIMIT characters, got GOT"}
               /\ \A i \in DOMAIN errors : errors[i].got = Len(call.arg.s)
    /\ (Constructing /\ Resolved(props.description))
            => /\ (Len(props.description.s) > 200) => phase = "threw"
               /\ (Texts(thrown.message) \cap DescriptionTexts # {})
                    => (Len(props.description.s) > 200)

\* a description of exactly 200 characters passes
C6_Witness ==
    /\ CalledFn("validateDescription")
    /\ Resolved(call.arg)
    /\ Len(call.arg.s) = 200
    /\ Len(errors) = 0

\* C7: constructing a resource whose CloudWatch Logs data source has no log
\* group name, or more than 5, fails; 1..5 names pass.
C7_LogGroupCountEnforced ==
    (Constructing /\ props.dataSource.type = "CLOUDWATCH_LOGS")
        => ((Len(getLogGroupNames(props.dataSource).a) \notin 1..5) => phase = "threw")

\* a resource is constructed over a data source without any log group name
C7_Unenforced ==
    /\ phase = "constructed"
    /\ Len(getLogGroupNames(props.dataSource).a) = 0
    /\ Len(resource.onCreate.parameters.dataSourceConfig.cloudWatchLogs.logGroupNames.a) = 0

\* C8: each of the seven validation functions returns no error when it is
\* called with null or undefined.
C8_AbsentIsNoop ==
    (phase = "called" /\ IsNullish(call.arg)) => Len(errors) = 0

\* C8, amended: validateConfigName, validateDescription,
\* validateSamplingPercentage, validateFilters and validateSessionTimeout return
\* no error for null or undefined; validateEvaluators and validateLogGroupNames
\* return the single message '... array is required'.
C8_AbsentRule ==
    (phase = "called" /\ IsNullish(call.arg))
        => CASE call.fn = "validateEvaluators"
                    -> Len(errors) = 1 /\ errors[1].text = "Evaluators array is required"
             [] call.fn = "validateLogGroupNames"
                    -> Len(errors) = 1 /\ errors[1].text = "Log group names array is required"
             [] OTHER -> Len(errors) = 0

\* validateEvaluators(null) reports that the array is required
C8_Witness ==
    /\ CalledFn("validateEvaluators")
    /\ call.arg = Null
    /\ Len(errors) = 1

\* the encoding of a deferred value breaks the rule of its field
C9_EncodingInvalid(fn, v) ==
    CASE fn = "validateConfigName" -> ~C1_Matches(v.s)
      [] fn = "validateDescription" -> Len(v.s) > 200
      [] fn = "validateSamplingPercentage" -> ~C2_InRange(v)
      [] fn = "validateSessionTimeout" -> ~C4_InRange(v)
      [] OTHER -> FALSE

\* C9: a deferred configName, description, samplingPercentage or
\* sessionTimeoutMinutes passes its validation function whatever its encoding,
\* construction never throws on that field, and the value reaches the create
\* and update parameters unchanged.
C9_DeferredBypass ==
    /\ (phase = "called" /\ IsUnresolved(call.arg)
            /\ call.fn \in {"validateConfigName", "validateDescription",
                            "validateSamplingPercentage", "validateSessionTimeout"})
            => Len(errors) = 0
    /\ Constructing
            => /\ IsUnresolved(props.configName)
                    => Texts(thrown.message) \cap NameTexts = {}
               /\ IsUnresolved(props.description)
                    => Texts(thrown.message) \cap DescriptionTexts = {}
               /\ IsUnresolved(props.samplingPercentage)
                    => Texts(thrown.message) \cap SamplingTexts = {}
               /\ IsUnresolved(props.sessionTimeoutMinutes)
                    => Texts(thrown.message) \cap TimeoutTexts = {}
    /\ phase = "constructed"
            => LET create == resource.onCreate.parameters
                   update == resource.onUpdate.parameters
               IN  /\ IsUnresolved(props.configName)
                        => create.onlineEvaluationConfigName = props.configName
                   /\ IsUnresolved(props.description)
                        => /\ "description" \in DOMAIN create
                           /\ create.description = props.description
                           /\ update.description = props.description
                   /\ IsUnresolved(props.samplingPercentage)
                        => /\ create.rule.samplingConfig.samplingPercentage
                                = props.samplingPercentage
                           /\ update.rule.samplingConfig.samplingPercentage
                                = props.samplingPercentage
                   /\ IsUnresolved(props.sessionTimeoutMinutes)
                        => /\ create.rule.sessionConfig.sessionTimeoutMinutes
                                = props.sessionTimeoutMinutes
                           /\ update.rule.sessionConfig.sessionTimeoutMinutes
                                = props.sessionTimeoutMinutes

\* a resource is constructed from four deferred values, each of which would
\* break the rule of its field if its encoding were validated
C9_Witness ==
    /\ phase = "constructed"
    /\ IsUnresolved(props.configName)
    /\ C9_EncodingInvalid("validateConfigName", props.configName)
    /\ IsUnresolved(props.description)
    /\ C9_EncodingInvalid("validateDescription", props.description)
    /\ IsUnresolved(props.samplingPercentage)
    /\ C9_EncodingInvalid("validateSamplingPercentage", props.samplingPercentage)
    /\ IsUnresolved(props.sessionTimeoutMinutes)
    /\ C9_EncodingInvalid("validateSessionTimeout", props.sessionTimeoutMinutes)

\* the messages of each validation function for the props, in the claimed order
C10_Errors(p) ==
    <<validateConfigName(p.configName), validateDescription(p.description),
      validateEvaluators(p.evaluators), validateSamplingPercentage(p.samplingPercentage),
      validateFilters(p.filters), validateSessionTimeout(p.sessionTimeoutMinutes)>>

C10_Failing(errs) == {i \in 1..6 : Len(errs[i]) > 0}

C10_First(failing) == CHOOSE i \in failing : \A j \in failing : i <= j

\* C10: the validators run in the order configName, description, evaluators,
\* samplingPercentage, filters, sessionTimeoutMinutes; the error thrown carries
\* exactly the messages of the first validator that fails, joined by newlines,
\* and no message of a later one.
C10_FailFastOrder ==
    Constructing
        => LET errs == C10_Errors(props)
               failing == C10_Failing(errs)
           IN  IF failing = {}
               THEN phase = "constructed"
               ELSE LET k == C10_First(failing)
                        first == errs[k]
                        thrownTexts == Texts(thrown.message)
                    IN  /\ phase = "threw"
                        /\ thrown.kind = "ValidationError"
                        /\ Len(thrown.message) = 2 * Len(first) - 1
                        /\ \A i \in DOMAIN first : thrown.message[2 * i - 1] = first[i]
                        /\ \A i \in 1..(Len(first) - 1) : thrown.message[2 * i].text = "\n"
                        /\ \A j \in failing :
                                j > k => Texts(errs[j]) \cap thrownTexts = {}

\* a 49-character name with other invalid fields: both name messages are
\* thrown, and nothing else
C10_Witness ==
    /\ phase = "threw"
    /\ Len(props.configName.s) = 49
    /\ Cardinality(C10_Failing(C10_Errors(props))) = 6
    /\ Len(thrown.message) = 3
    /\ Texts(thrown.message) \subseteq NameTexts \cup {"\n"}

----------------------------------------------------------------------------
(* Properties of the constructor's effects and of the rendered requests *)

ReturnedFrom(fn) == phase = "returned" /\ call.fn = fn

\* C11: a construction that a validator ended has produced nothing beyond the
\* construct itself: no execution role was created, no statement was added to
\* a role, no create/update/delete parameters were built and no custom
\* resource was defined.
C11_AbortsBeforeAnything ==
    (phase = "threw" /\ thrown.kind = "ValidationError")
        => /\ resource = Undefined
           /\ tree = <<"OnlineEvaluation">>
           /\ attached = <<>>

\* every field but the last validated one is valid, no role was supplied, and
\* the throw of the last validator left neither role nor custom resource
C11_Witness ==
    /\ phase = "threw"
    /\ thrown.kind = "ValidationError"
    /\ Texts(thrown.message) \subseteq TimeoutTexts
    /\ IsNullish(props.executionRole)
    /\ tree = <<"OnlineEvaluation">>
    /\ attached = <<>>
    /\ resource = Undefined

\* the id each built-in evaluator is documented and tested to render
C12_BuiltinIds ==
    [CORRECTNESS |-> "Builtin.Correctness",
     FAITHFULNESS |-> "Builtin.Faithfulness",
     HELPFULNESS |-> "Builtin.Helpfulness",
     RESPONSE_RELEVANCE |-> "Builtin.ResponseRelevance",
     CONCISENESS |-> "Builtin.Conciseness",
     COHERENCE |-> "Builtin.Coherence",
     INSTRUCTION_FOLLOWING |-> "Builtin.InstructionFollowing",
     REFUSAL |-> "Builtin.Refusal",
     GOAL_SUCCESS_RATE |-> "Builtin.GoalSuccessRate",
     TOOL_SELECTION_ACCURACY |-> "Builtin.ToolSelectionAccuracy",
     TOOL_PARAMETER_ACCURACY |-> "Builtin.ToolParameterAccuracy",
     HARMFULNESS |-> "Builtin.Harmfulness",
     STEREOTYPING |-> "Builtin.Stereotyping"]

C13_CloudWatchLogsVerbatim ==
    ReturnedFrom("DataSourceConfig.fromCloudWatchLogs")
        => /\ ~result.threw
           /\ result.value =
                [cloudWatchLogs |->
                    [logGroupNames |-> call.arg.logGroupNames,
                     serviceNames |-> call.arg.serviceNames]]

\* two different log group names, a repeated service name
C13_Witness ==
    /\ ReturnedFrom("DataSourceConfig.fromCloudWatchLogs")
    /\ call.arg.logGroupNames.a = <<(<<"/aws/logs/two">>), <<"/aws/logs/one">>>>
    /\ call.arg.serviceNames.a = <<(<<"svc.one">>), <<"svc.one">>>>
    /\ result.value.cloudWatchLogs.logGroupNames.a[1] = <<"/aws/logs/two">>

\* the endpoint name E of the claim: the string, the object's name, or DEFAULT
C14_EndpointName(endpoint) ==
    CASE endpoint.t = "undefined" -> <<"DEFAULT">>
      [] endpoint.t = "string" -> endpoint.s
      [] endpoint.t = "object" -> endpoint.endpointName

\* C14: fromAgentRuntimeEndpoint(runtime, endpoint) renders a cloudWatchLogs
\* payload with exactly one log group name,
\* /aws/bedrock-agentcore/runtimes/{runtimeId}-{E}, and exactly one service
\* name, {runtimeName}.{E}, where E is the given string, the endpoint
\* object's endpointName, or DEFAULT when no endpoint is given.
C14_RuntimeEndpointNames ==
    ReturnedFrom("DataSourceConfig.fromAgentRuntimeEndpoint")
        => LET runtime == call.arg.runtime
               E == C14_EndpointName(call.arg.endpoint)
           IN  /\ ~result.threw
               /\ DOMAIN result.value = {"cloudWatchLogs"}
               /\ result.value.cloudWatchLogs.logGroupNames.a =
                    << <<"/aws/bedrock-agentcore/runtimes/">> \o runtime.agentRuntimeId
                            \o <<"-">> \o E >>
               /\ result.value.cloudWatchLogs.serviceNames.a =
                    << runtime.agentRuntimeName \o <<".">> \o E >>

\* the endpoint name given as a string
C14_Witness ==
    /\ ReturnedFrom("DataSourceConfig.fromAgentRuntimeEndpoint")
    /\ call.arg.endpoint = Str(<<"PROD">>)
    /\ result.value.cloudWatchLogs.serviceNames.a = <<(<<"my_runtime", ".", "PROD">>)>>
    /\ result.value.cloudWatchLogs.logGroupNames.a =
            <<(<<"/aws/bedrock-agentcore/runtimes/", "my_runtime-a1b2c3", "-", "PROD">>)>>

\* C15: fromAgentEndpoint({agentRuntimeId, endpointName?})._render() is
\* {agentEndpoint: {agentRuntimeId, endpointName}}, the endpoint name being
\* the supplied one, DEFAULT when none is supplied, and there is no
\* cloudWatchLogs key.
C15_AgentEndpointRender ==
    ReturnedFrom("DataSourceConfig.fromAgentEndpoint")
        => /\ ~result.threw
           /\ "cloudWatchLogs" \notin DOMAIN result.value
           /\ result.value =
                [agentEndpoint |->
                    [agentRuntimeId |-> call.arg.agentRuntimeId,
                     endpointName |->
                        IF call.arg.endpointName.t = "string"
                        THEN call.arg.endpointName
                        ELSE Str(<<"DEFAULT">>)]]

\* no endpoint name supplied
C15_Witness ==
    /\ ReturnedFrom("DataSourceConfig.fromAgentEndpoint")
    /\ call.arg.endpointName = Undefined
    /\ result.value.agentEndpoint.endpointName = Str(<<"DEFAULT">>)
    /\ result.value.agentEndpoint.agentRuntimeId = Str(<<"my-runtime-id">>)

\* the sub-config that belongs to the config's type is there
C16_Populated(ds) ==
    \/ ds.type = "CLOUDWATCH_LOGS" /\ ds.cloudWatchLogsConfig.t = "object"
    \/ ds.type = "AGENT_ENDPOINT" /\ ds.agentEndpointConfig.t = "object"

\* C16: rendering a DataSourceConfig that holds no populated sub-config for
\* its type throws an error and returns no payload; a render that returns
\* gives one whole payload, never an empty or partial object.
C16_UnpopulatedRenderFails ==
    ReturnedFrom("DataSourceConfig._render")
        => IF C16_Populated(call.arg)
           THEN /\ ~result.threw
                /\ \/ /\ DOMAIN result.value = {"cloudWatchLogs"}
                      /\ DOMAIN result.value.cloudWatchLogs = {"logGroupNames", "serviceNames"}
                   \/ /\ DOMAIN result.value = {"agentEndpoint"}
                      /\ DOMAIN result.value.agentEndpoint = {"agentRuntimeId", "endpointName"}
           ELSE /\ result.threw
                /\ result.value.text = "Unknown data source type: TYPE"
                /\ result.value.name = <<call.arg.type>>

\* an agent-endpoint config holding only a CloudWatch Logs sub-config
C16_Witness ==
    /\ ReturnedFrom("DataSourceConfig._render")
    /\ call.arg.type = "AGENT_ENDPOINT"
    /\ call.arg.agentEndpointConfig = Undefined
    /\ call.arg.cloudWatchLogsConfig.t = "object"
    /\ result.threw

\* the caller passed enableOnCreate: false
C17_PassedFalse == props.enableOnCreate.t = "boolean" /\ props.enableOnCreate.b = FALSE

\* C17: the create parameters carry enableOnCreate = false only when the
\* caller passed false (omitted or true gives true); the update parameters
\* always carry executionStatus, DISABLED exactly when the caller passed false
\* and ENABLED otherwise; so enableOnCreate is true iff executionStatus is
\* ENABLED.
C17_EnableFlag ==
    phase = "constructed"
        => LET create == resource.onCreate.parameters
               update == resource.onUpdate.parameters
           IN  /\ "enableOnCreate" \in DOMAIN create
               /\ create.enableOnCreate = ~C17_PassedFalse
               /\ "executionStatus" \in DOMAIN update
               /\ update.executionStatus = (IF C17_PassedFalse THEN "DISABLED" ELSE "ENABLED")
               /\ create.enableOnCreate <=> (update.executionStatus = "ENABLED")

\* the flag omitted: enabled in both requests
C17_Witness ==
    /\ phase = "constructed"
    /\ props.enableOnCreate = Undefined
    /\ resource.onCreate.parameters.enableOnCreate = TRUE
    /\ resource.onUpdate.parameters.executionStatus = "ENABLED"

\* C18: the rule of the create and of the update request always contains
\* samplingConfig.samplingPercentage and sessionConfig.sessionTimeoutMinutes:
\* the caller's value unchanged when one was supplied, otherwise 10 and 15.
C18_RuleDefaults ==
    phase = "constructed"
        => \A params \in {resource.onCreate.parameters, resource.onUpdate.parameters} :
            /\ "rule" \in DOMAIN params
            /\ {"samplingConfig", "sessionConfig"} \subseteq DOMAIN params.rule
            /\ params.rule.samplingConfig =
                [samplingPercentage |->
                    IF props.samplingPercentage.t = "undefined"
                    THEN Whole(10) ELSE props.samplingPercentage]
            /\ params.rule.sessionConfig =
                [sessionTimeoutMinutes |->
                    IF props.sessionTimeoutMinutes.t = "undefined"
                    THEN Whole(15) ELSE props.sessionTimeoutMinutes]

\* a supplied sampling percentage beside an omitted timeout
C18_Witness ==
    /\ phase = "constructed"
    /\ props.samplingPercentage = Num(12345)
    /\ props.sessionTimeoutMinutes = Undefined
    /\ resource.onCreate.parameters.rule.samplingConfig.samplingPercentage = Num(12345)
    /\ resource.onCreate.parameters.rule.sessionConfig.sessionTimeoutMinutes = Whole(15)

\* String(value) of the values that are no string, number or boolean
C19_StringOf(value) ==
    CASE value.t = "undefined" -> <<"undefined">>
      [] value.t = "null" -> <<"null">>
      [] value.t = "object" -> <<"[object Object]">>

\* C19: a filter value is rendered under exactly one tag chosen by its type:
\* a string under stringValue, a number under doubleValue, a boolean under
\* booleanValue, each unaltered, and a value of any other type under
\* stringValue as String(value).
C19_FilterValueTag ==
    ReturnedFrom("formatFilterValue")
        => LET value == call.arg
           IN  /\ Cardinality(DOMAIN result) = 1
               /\ CASE value.t = "string" -> result = [stringValue |-> value]
                    [] value.t = "number" -> result = [doubleValue |-> value]
                    [] value.t = "boolean" -> result = [booleanValue |-> value]
                    [] OTHER -> result = [stringValue |-> Str(C19_StringOf(value))]

\* a boolean keeps its type
C19_Witness ==
    /\ ReturnedFrom("formatFilterValue")
    /\ call.arg = Bool(FALSE)
    /\ result = [booleanValue |-> Bool(FALSE)]

\* the ids of the constructs defined in the scope
C20_Defined == {tree[i] : i \in DOMAIN tree}

\* C20: with an execution role supplied, executionRole and grantPrincipal are
\* that role, its ARN is the evaluationExecutionRoleArn of the create and of
\* the update request, no role is created and none of the four execution-role
\* statements is added to it; a role is created only when none is supplied.
C20_SuppliedRoleUsed ==
    phase = "constructed"
        => IF props.executionRole.t = "role"
           THEN /\ resource.executionRole = props.executionRole
                /\ resource.grantPrincipal = props.executionRole
                /\ resource.onCreate.parameters.evaluationExecutionRoleArn
                        = props.executionRole.roleArn
                /\ resource.onUpdate.parameters.evaluationExecutionRoleArn
                        = props.executionRole.roleArn
                /\ "ExecutionRole" \notin C20_Defined
                /\ attached = <<>>
           ELSE /\ "ExecutionRole" \in C20_Defined
                /\ resource.executionRole.created
                /\ resource.executionRole.roleArn # SuppliedRole.roleArn

C20_Witness ==
    /\ phase = "constructed"
    /\ props.executionRole = SuppliedRole
    /\ resource.executionRole = SuppliedRole
    /\ tree = <<"OnlineEvaluation", "Resource">>
    /\ attached = <<>>

----------------------------------------------------------------------------
(* Properties of the roles, the policies and the request parameters *)

\* the elements of a sequence
Range(seq) == {seq[i] : i \in DOMAIN seq}

\* the log-group ARN of the stack's account and region for a log group name
C21_LogGroupArn(name) ==
    <<"arn:", "${Partition}", ":", "logs", ":", "${Region}", ":", "${Account}", ":",
      "log-group", ":", name>>

\* C21: an execution role the construct creates is trusted by the
\* bedrock-agentcore.amazonaws.com service principal and receives exactly four
\* statements, in order CloudWatchLogReadStatement, CloudWatchLogWriteStatement,
\* CloudWatchIndexPolicyStatement and BedrockInvokeStatement, carrying the
\* CloudWatch Logs read, CloudWatch Logs write, index-policy and Bedrock model
\* permission sets; the write statement is scoped to the log groups under
\* /aws/bedrock-agentcore/evaluations/ and the index-policy statement to the
\* two aws/spans ARNs, neither to "*".
C21_CreatedRoleStatements ==
    (phase = "constructed" /\ props.executionRole.t = "undefined")
        => LET role == resource.executionRole
               st == [i \in DOMAIN attached |-> attached[i].statement]
           IN  /\ role.created
               /\ role.assumedBy = "bedrock-agentcore.amazonaws.com"
               /\ role.statements = st
               /\ \A i \in DOMAIN attached : attached[i].role = role.roleArn
               /\ Len(st) = 4
               /\ [i \in 1..4 |-> st[i].sid] =
                    <<"CloudWatchLogReadStatement", "CloudWatchLogWriteStatement",
                      "CloudWatchIndexPolicyStatement", "BedrockInvokeStatement">>
               /\ [i \in 1..4 |-> st[i].actions] =
                    <<CLOUDWATCH_LOGS_READ_PERMS, CLOUDWATCH_LOGS_WRITE_PERMS,
                      CLOUDWATCH_INDEX_POLICY_PERMS, BEDROCK_MODEL_PERMS>>
               /\ st[2].resources = <<C21_LogGroupArn("/aws/bedrock-agentcore/evaluations/*")>>
               /\ st[3].resources =
                    <<C21_LogGroupArn("aws/spans"), C21_LogGroupArn("aws/spans:*")>>
               /\ <<"*">> \notin Range(st[2].resources) \cup Range(st[3].resources)

C21_Witness ==
    /\ phase = "constructed"
    /\ props.executionRole.t = "undefined"
    /\ tree = <<"OnlineEvaluation", "ExecutionRole", "Resource">>
    /\ Len(attached) = 4
    /\ attached[2].statement.sid = "CloudWatchLogWriteStatement"

\* C22: the custom resource's executor is granted exactly three statements:
\* the ADMIN permission set, iam:PassRole, and the log actions
\* DescribeIndexPolicies, PutIndexPolicy and CreateLogGroup; the only resource
\* of the iam:PassRole statement is the ARN of the execution role the resource
\* uses, supplied or created, never "*" and never another role.
C22_ExecutorPolicy ==
    phase = "constructed"
        => LET policy == resource.policy
               used == IF props.executionRole.t = "role"
                       THEN props.executionRole.roleArn
                       ELSE <<"${ExecutionRole.Arn}">>
           IN  /\ Len(policy) = 3
               /\ Range(policy[1].actions) =
                    {"bedrock-agentcore:CreateOnlineEvaluationConfig",
                     "bedrock-agentcore:GetOnlineEvaluationConfig",
                     "bedrock-agentcore:UpdateOnlineEvaluationConfig",
                     "bedrock-agentcore:DeleteOnlineEvaluationConfig",
                     "bedrock-agentcore:ListOnlineEvaluationConfigs"}
               /\ policy[1].actions = ADMIN_PERMS
               /\ policy[2].actions = <<"iam:PassRole">>
               /\ policy[2].resources = <<used>>
               /\ used = resource.executionRole.roleArn
               /\ used = resource.onCreate.parameters.evaluationExecutionRoleArn
               /\ policy[3].actions =
                    <<"logs:DescribeIndexPolicies", "logs:PutIndexPolicy", "logs:CreateLogGroup">>

\* a supplied role: iam:PassRole names that role
C22_Witness ==
    /\ phase = "constructed"
    /\ props.executionRole.t = "role"
    /\ resource.policy[2].resources = <<SuppliedRole.roleArn>>

\* C27: the rule has a filters key exactly when the caller supplied a
\* non-empty filters array (none for undefined and for the empty array); the
\* rendered list then has the length and the order of the input, each entry
\* with the input filter's key and operator unchanged, and so never more than
\* 5 entries after a successful construction.
C27_FiltersKey ==
    phase = "constructed"
        => \A params \in {resource.onCreate.parameters, resource.onUpdate.parameters} :
            LET rule == params.rule
                supplied == props.filters.t = "array" /\ props.filters.a # <<>>
            IN  /\ ("filters" \in DOMAIN rule) <=> supplied
                /\ supplied
                    => /\ Len(rule.filters) = Len(props.filters.a)
                       /\ Len(rule.filters) <= 5
                       /\ \A i \in DOMAIN rule.filters :
                            /\ rule.filters[i].key = props.filters.a[i].key
                            /\ rule.filters[i].operator = props.filters.a[i].operator
                            /\ DOMAIN rule.filters[i] = {"key", "operator", "value"}

\* an empty filters array: no filters key
C27_Witness ==
    /\ phase = "constructed"
    /\ props.filters.t = "array"
    /\ props.filters.a = <<>>
    /\ "filters" \notin DOMAIN resource.onCreate.parameters.rule
    /\ "filters" \notin DOMAIN resource.onUpdate.parameters.rule

\* C28: for the same props the create and the update parameters agree on what
\* they share: evaluators (each rendered in input order, between 1 and 10 of
\* them), dataSourceConfig, evaluationExecutionRoleArn and rule are identical;
\* the update parameters are keyed by the physical-id placeholder and carry
\* neither onlineEvaluationConfigName nor enableOnCreate; the delete
\* parameters contain the physical-id placeholder and nothing else.
C28_CreateUpdateAgree ==
    phase = "constructed"
        => LET create == resource.onCreate.parameters
               update == resource.onUpdate.parameters
               delete == resource.onDelete.parameters
           IN  /\ create.evaluators = update.evaluators
               /\ Len(create.evaluators) = Len(props.evaluators.a)
               /\ \A i \in DOMAIN create.evaluators :
                    create.evaluators[i] = [evaluatorId |-> props.evaluators.a[i].evaluatorId]
               /\ Len(create.evaluators) >= 1
               /\ Len(create.evaluators) <= 10
               /\ create.dataSourceConfig = update.dataSourceConfig
               /\ create.evaluationExecutionRoleArn = update.evaluationExecutionRoleArn
               /\ create.rule = update.rule
               /\ update.onlineEvaluationConfigId = [t |-> "PhysicalResourceIdReference"]
               /\ "onlineEvaluationConfigName" \notin DOMAIN update
               /\ "enableOnCreate" \notin DOMAIN update
               /\ "onlineEvaluationConfigId" \notin DOMAIN create
               /\ delete = [onlineEvaluationConfigId |-> [t |-> "PhysicalResourceIdReference"]]

\* ten evaluators, an agent-endpoint data source and filters in both requests
C28_Witness ==
    /\ phase = "constructed"
    /\ Len(resource.onUpdate.parameters.evaluators) = 10
    /\ "agentEndpoint" \in DOMAIN resource.onUpdate.parameters.dataSourceConfig
    /\ "filters" \in DOMAIN resource.onUpdate.parameters.rule
    /\ resource.onCreate.parameters.onlineEvaluationConfigName = props.configName

\* C29: the create parameters contain a description key exactly when the
\* caller's description is a non-empty string (undefined and '' both omit
\* it); the update parameters always contain the description key, with the
\* caller's value as given, undefined and '' included.
C29_DescriptionKeys ==
    phase = "constructed"
        => LET create == resource.onCreate.parameters
               update == resource.onUpdate.parameters
               nonEmpty == props.description.t = "string" /\ Len(props.description.s) > 0
           IN  /\ ("description" \in DOMAIN create) <=> nonEmpty
               /\ nonEmpty => create.description = props.description
               /\ "description" \in DOMAIN update
               /\ update.description = props.description

\* an empty description: dropped on create, sent on update
C29_Witness ==
    /\ phase = "constructed"
    /\ props.description.t = "string"
    /\ props.description.s = <<>>
    /\ "description" \notin DOMAIN resource.onCreate.parameters
    /\ resource.onUpdate.parameters.description.t = "string"
    /\ resource.onUpdate.parameters.description.s = <<>>

\* C30: a DataSourceConfig from a public factory given a defined config
\* renders without error, to an object with exactly one top-level key:
\* cloudWatchLogs for fromCloudWatchLogs and fromAgentRuntimeEndpoint,
\* agentEndpoint for fromAgentEndpoint; a construction ends with the
\* unknown-data-source-type error only when its data source was made from an
\* undefined config.
C30_FactoriesRender ==
    /\ (\/ ReturnedFrom("DataSourceConfig.fromCloudWatchLogs")
        \/ ReturnedFrom("DataSourceConfig.fromAgentRuntimeEndpoint"))
        => /\ ~result.threw
           /\ DOMAIN result.value = {"cloudWatchLogs"}
    /\ ReturnedFrom("DataSourceConfig.fromAgentEndpoint")
        => /\ ~result.threw
           /\ DOMAIN result.value = {"agentEndpoint"}
    /\ (phase = "threw" /\ thrown.kind = "UnscopedValidationError")
        => /\ props.dataSource.cloudWatchLogsConfig.t = "undefined"
           /\ props.dataSource.agentEndpointConfig.t = "undefined"

C30_Witness ==
    /\ ReturnedFrom("DataSourceConfig.fromAgentEndpoint")
    /\ call.arg.endpointName.t = "string"
    /\ ~result.threw
    /\ DOMAIN result.value = {"agentEndpoint"}

----------------------------------------------------------------------------
(* Properties of the grants, the imports and the metrics *)

MethodCalled(fn) == phase = "method" /\ call.fn = fn

ImportedBy(fn) == phase = "imported" /\ call.fn = fn

\* C23: grant(grantee, ...actions) gives the grantee a statement whose actions
\* are exactly the given actions and whose only resource is the resource's
\* configArn; grantAdmin(grantee) is grant(grantee) with the five ADMIN
\* actions Create, Get, Update, Delete and List OnlineEvaluationConfig(s); on
\* created and on imported resources alike.
C23_GrantScope ==
    /\ MethodCalled("grant")
        => result = [grantee |-> call.arg.grantee,
                     actions |-> call.arg.actions,
                     resourceArns |-> <<resource.configArn>>]
    /\ MethodCalled("grantAdmin")
        => result = [grantee |-> call.arg.grantee,
                     actions |->
                        <<"bedrock-agentcore:CreateOnlineEvaluationConfig",
                          "bedrock-agentcore:GetOnlineEvaluationConfig",
                          "bedrock-agentcore:UpdateOnlineEvaluationConfig",
                          "bedrock-agentcore:DeleteOnlineEvaluationConfig",
                          "bedrock-agentcore:ListOnlineEvaluationConfigs">>,
                     resourceArns |-> <<resource.configArn>>]

\* grantAdmin on a resource imported by ARN
C23_Witness ==
    /\ MethodCalled("grantAdmin")
    /\ resource.t = "Import"
    /\ resource.configArn[3] = "aws-cn"
    /\ result.resourceArns = <<resource.configArn>>
    /\ Len(result.actions) = 5

\* C24: a resource from fromConfigId, fromConfigArn or fromAttributes has
\* status and executionStatus undefined; its executionRole is defined exactly
\* when an executionRoleArn was supplied (an empty string supplies none), so
\* never for fromConfigId and fromConfigArn; its grantPrincipal is that role
\* when defined and an unknown-principal placeholder otherwise; fromAttributes
\* hands configArn, configId and configName on unchanged.
C24_ImportedShape ==
    phase = "imported"
        => LET supplied ==
                    /\ call.fn = "fromAttributes"
                    /\ call.arg.executionRoleArn.t = "string"
                    /\ call.arg.executionRoleArn.s # <<>>
           IN  /\ resource.status.t = "undefined"
               /\ resource.executionStatus.t = "undefined"
               /\ (resource.executionRole.t # "undefined") <=> supplied
               /\ supplied
                    => /\ resource.executionRole.t = "role"
                       /\ resource.executionRole.roleArn = call.arg.executionRoleArn.s
                       /\ resource.grantPrincipal = resource.executionRole
               /\ ~supplied => resource.grantPrincipal = [t |-> "UnknownPrincipal"]
               /\ call.fn = "fromAttributes"
                    => /\ resource.configArn = call.arg.configArn
                       /\ resource.configId = call.arg.configId
                       /\ resource.configName = call.arg.configName

\* all attributes given, the id differing from the one in the ARN
C24_Witness ==
    /\ ImportedBy("fromAttributes")
    /\ call.arg.executionRoleArn.t = "string"
    /\ call.arg.executionRoleArn.s = <<"arn:aws:iam::123456789012:role/MyRole">>
    /\ call.arg.configId = <<"a">>
    /\ call.arg.configArn[Len(call.arg.configArn)] = "my-config-id"
    /\ resource.grantPrincipal.t = "role"
    /\ tree = <<"Imported", "ImportedRole">>

\* where the fragments online-evaluation-config and / stand in an ARN
C25_Marker(arn) ==
    CHOOSE i \in 1..(Len(arn) - 1) : arn[i] = "online-evaluation-config" /\ arn[i + 1] = "/"

\* what follows online-evaluation-config/ in an ARN
C25_Segment(arn) == SubSeq(arn, C25_Marker(arn) + 2, Len(arn))

\* C25: fromConfigArn(arn) has configId equal to the segment after
\* online-evaluation-config/, configArn equal to arn unchanged and configName
\* equal to configId; fromConfigId(id) has configId = id and a configArn that
\* ends in online-evaluation-config/ followed by id; importing that configArn
\* with fromConfigArn gives back configId = id.
C25_ArnRoundTrip ==
    /\ ImportedBy("fromConfigArn")
        => /\ resource.configArn = call.arg
           /\ resource.configId = C25_Segment(call.arg)
           /\ resource.configName = resource.configId
    /\ ImportedBy("fromConfigId")
        => LET arn == resource.configArn
               id == call.arg
           IN  /\ resource.configId = id
               /\ Len(arn) > Len(id) + 2
               /\ SubSeq(arn, Len(arn) - Len(id) - 1, Len(arn))
                    = <<"online-evaluation-config", "/">> \o id
    /\ ImportedBy("fromConfigId.configArn")
        => /\ resource.configId = call.arg
           /\ C25_Segment(resource.configArn) = call.arg

\* an id of three fragments came back from the ARN made for it
C25_Witness ==
    /\ ImportedBy("fromConfigId.configArn")
    /\ call.arg = <<"config", "-", "0123456789">>
    /\ resource.configId = <<"config", "-", "0123456789">>
    /\ resource.configArn[3] = "${Partition}"

C26_MetricFns ==
    {"metric", "metricEvaluationCount", "metricEvaluationErrors", "metricEvaluationLatency"}

\* the caller's options carry the key
C26_Gives(key) == call.arg.options.t = "object" /\ key \in DOMAIN call.arg.options.fields

\* the metric name each method is claimed to use
C26_Name ==
    CASE call.fn = "metric" -> call.arg.metricName
      [] call.fn = "metricEvaluationCount" -> "EvaluationCount"
      [] call.fn = "metricEvaluationErrors" -> "EvaluationErrors"
      [] call.fn = "metricEvaluationLatency" -> "EvaluationLatency"

\* namespace, name and default statistic, as claimed
C26_NameAndStatistic ==
    /\ result.namespace = "AWS/Bedrock-AgentCore"
    /\ result.metricName = C26_Name
    /\ (call.fn \in {"metricEvaluationCount", "metricEvaluationErrors"} /\ ~C26_Gives("statistic"))
        => result.statistic = "SUM"
    /\ (call.fn = "metricEvaluationLatency" /\ ~C26_Gives("statistic"))
        => result.statistic = "AVERAGE"

\* C26 as stated: metric(name, options) returns a metric in the namespace
\* AWS/Bedrock-AgentCore with metricName = name and the single dimension
\* OnlineEvaluationConfigId = the resource's configId, whatever the options;
\* metricEvaluationCount and metricEvaluationErrors use EvaluationCount and
\* EvaluationErrors with statistic SUM, metricEvaluationLatency uses
\* EvaluationLatency with AVERAGE, when the caller gives no statistic.
C26_MetricDimension ==
    (phase = "method" /\ call.fn \in C26_MetricFns)
        => /\ C26_NameAndStatistic
           /\ result.dimensionsMap = [OnlineEvaluationConfigId |-> resource.configId]

\* C26, amended: namespace, metricName and the default statistics are as
\* stated; the dimensions are the single dimension OnlineEvaluationConfigId =
\* configId unless the caller's options carry a dimensionsMap, which then
\* replaces it; a statistic the caller gives replaces the default.
C26_MetricDimensionUnlessGiven ==
    (phase = "method" /\ call.fn \in C26_MetricFns)
        => /\ C26_NameAndStatistic
           /\ result.dimensionsMap =
                (IF C26_Gives("dimensionsMap")
                 THEN call.arg.options.fields.dimensionsMap
                 ELSE [OnlineEvaluationConfigId |-> resource.configId])
           /\ C26_Gives("statistic") => result.statistic = call.arg.options.fields.statistic

\* options with a dimensionsMap of their own: the metric is not dimensioned
\* by the resource's configId
C26_Witness ==
    /\ MethodCalled("metricEvaluationLatency")
    /\ C26_Gives("dimensionsMap")
    /\ ~C26_Gives("statistic")
    /\ result.statistic = "AVERAGE"
    /\ result.dimensionsMap = [Environment |-> <<"prod">>]
    /\ resource.configId = <<"my-config-id">>

====
